---- MODULE Spec2Model ----
(***************************************************************************)
(* A model of yakari's menu navigation engine and command template         *)
(* resolver (src/yakari/screens/menu.py, src/yakari/types.py and the input *)
(* screens and widgets they present).                                      *)
(*                                                                         *)
(* Python strings are TLA+ strings (TLC evaluates Len, SubSeq and \o on    *)
(* them); a Python dict is a sequence of entries [key, val] in insertion   *)
(* order; a value that may be None, a str or a list of str is a record     *)
(* [tag, v] with tag "none", "str" (v = <<s>>) or "list" (v = the list).   *)
(***************************************************************************)
EXTENDS Integers, Sequences, FiniteSets, TLC

VARIABLES
    stack,       \* the MenuScreens on the screen stack, entrypoint first
    on,          \* FlagArgument.on, per flag argument
    value,       \* ValueArgument.value, per value argument
    selected,    \* ChoiceArgument.selected, per choice argument
    ancestors,   \* Menu._ancestors_arguments, per menu
    modal,       \* the input (or results) screen on top of the menu screens
    pending,     \* the suspended dispatch waiting for the modal's result
    command,     \* YakariApp.command
    app,         \* YakariApp: dry_run, inplace, exit state, results runner
    ev,          \* what the last handler did (the call it made to process_match)
    call,        \* a call of MenuArguments.resolve_arguments on dictionaries
                 \* of its own: the selector, the two dictionaries, the result
    hist,        \* the history store and the History of the mounted ArgumentInput
    sugg,        \* a SuggestionsCommand and the reads of its values
    built,       \* a definition handed to the model constructors, and what
                 \* they made of it
    pressed,     \* the last printable key sent in a typing scenario, and the
                 \* input of the screen it was sent to
    rendered,    \* a NamedArgument of its own, and what render_template
                 \* returned for it
    cmd_runner   \* the CommandRunner of the results screen: its log, the
                 \* subprocesses it started and the tasks that stream them

vars == <<stack, on, value, selected, ancestors, modal, pending, command, app, ev,
          call, hist, sugg, built, pressed, rendered, cmd_runner>>

\* the variables of the navigation engine, and the others
nav_vars == <<stack, on, value, selected, ancestors, modal, pending, command, app, ev>>
aux_vars == <<call, hist, sugg, built, pressed, rendered, cmd_runner>>

----------------------------------------------------------------------------
(* Bounds of the model *)

\* the most tags a user accumulates in one multi-value input session
MaxTags == 2
\* the deepest nesting of menus in a definition (1 is a menu without sub-menu)
MaxDepth == 3
\* the most reads of values on one SuggestionsCommand
MaxReads == 3
\* the most calls of History.add on one History
MaxAdds == 4
\* the largest max_size of a History (the code's default is 20)
MaxHistorySize == 2
\* the most arguments of a menu, and of its ancestors, in a call of
\* resolve_arguments on its own
MaxArguments == 2
\* the longest include list of such a call
MaxInclude == 2
\* the longest value list of a NamedArgument rendered on its own
MaxValues == 2
\* the most runs of the validator on one selected value
MaxValidations == 2
\* the most values of a History whose cursor is moved
MaxDeque == 3

----------------------------------------------------------------------------
(* Values: None | str | list of str *)

NoneV == [tag |-> "none", v |-> <<>>]
StrV(s) == [tag |-> "str", v |-> <<s>>]
ListV(l) == [tag |-> "list", v |-> l]

\* Python's `x is None`
IsNone(x) == x.tag = "none"

\* Python's truth value of x: None, "" and [] are falsy
Truthy(x) ==
    \/ x.tag = "str" /\ x.v[1] /= ""
    \/ x.tag = "list" /\ x.v /= <<>>

\* str.startswith
StartsWith(k, s) == Len(s) <= Len(k) /\ SubSeq(k, 1, Len(s)) = s

\* Range of a sequence
Range(q) == {q[i] : i \in 1..Len(q)}

\* str.join over a list of strings
RECURSIVE Join(_, _)
Join(sep, l) ==
    IF l = <<>> THEN ""
    ELSE IF Len(l) = 1 THEN l[1]
    ELSE l[1] \o sep \o Join(sep, Tail(l))

----------------------------------------------------------------------------
(* Ordered dictionaries *)

Entry(k, x) == [key |-> k, val |-> x]
Keys(d) == {d[i].key : i \in 1..Len(d)}
KeyList(d) == [i \in 1..Len(d) |-> d[i].key]
Lookup(d, k) == d[CHOOSE i \in 1..Len(d) : d[i].key = k].val

\* dict.update with one entry: an existing key keeps its position and takes
\* the new value, a new key is appended
DictSet(d, e) ==
    IF e.key \in Keys(d)
    THEN [i \in 1..Len(d) |-> IF d[i].key = e.key THEN e ELSE d[i]]
    ELSE Append(d, e)

\* dict.update(other)
RECURSIVE DictUpdate(_, _)
DictUpdate(d, other) ==
    IF other = <<>> THEN d
    ELSE DictUpdate(DictSet(d, Head(other)), Tail(other))

\* {k: v for k, v in d.items() if k in keep}
RECURSIVE DictFilter(_, _)
DictFilter(d, keep) ==
    IF d = <<>> THEN <<>>
    ELSE IF Head(d).key \in keep
         THEN <<Head(d)>> \o DictFilter(Tail(d), keep)
         ELSE DictFilter(Tail(d), keep)

----------------------------------------------------------------------------
(* The menu definitions the application is started on.  Six menu trees:    *)
(*  "F"  the fixture of the test suite: one menu, four arguments, one      *)
(*       command;                                                          *)
(*  "D0" a menu with a sub-menu "D1" and a sub-sub-menu "D2", with         *)
(*       commands selecting the arguments of this menu or of all menus;    *)
(*  "M"  a menu with multi-valued arguments and commands whose templates   *)
(*       embed arguments directly;                                         *)
(*  "P"  a small menu whose commands set their own inplace mode, the one   *)
(*       the application is also started on in in-place mode;              *)
(*  "I"  a small menu with a command that always resolves, one that      *)
(*       embeds two value arguments and one that embeds a flag, for the    *)
(*       sessions in in-place mode in which a resolution aborts after      *)
(*       another command was recorded;                                     *)
(*  "X"  a menu in which a shortcut is a proper prefix of another one      *)
(*       ("a" of "ab", "cfg" of "cfgh") and shortcuts share the prefix "c";*)
(*  "E"  a menu one of whose shortcuts is the empty string.                *)

\* constants.DEFAULT_ARGUMENT_FIELDS
DefaultSeparator == "space"
DefaultMultiStyle == ","

FlagArgument(flag) ==
    [type |-> "flag", name |-> flag, separator |-> DefaultSeparator,
     multi |-> FALSE, multi_style |-> DefaultMultiStyle, choices |-> <<>>]
ValueArgument(name, separator, multi, multi_style) ==
    [type |-> "value", name |-> name, separator |-> separator,
     multi |-> multi, multi_style |-> multi_style, choices |-> <<>>]
ChoiceArgument(name, choices, separator, multi, multi_style) ==
    [type |-> "choice", name |-> name, separator |-> separator,
     multi |-> multi, multi_style |-> multi_style, choices |-> choices]

FlagIds == {"fFlag", "fLong", "dFlag", "dDeep", "dShadow", "kForce", "pQuiet", "iDry",
            "xA", "xAB", "xCD", "xCFG", "xCFGH", "eEmpty", "eA",
            "iForce"}
ValueIds == {"fValue", "dParent", "dNamed", "mMulti", "rTargets", "pOut", "iSrc", "iDst",
             "xCE"}
ChoiceIds == {"fChoice", "mSel", "rMode"}
ArgIds == FlagIds \cup ValueIds \cup ChoiceIds

\* (the tables are functions, which TLC evaluates once)
ArgTable == [a \in ArgIds |->
    CASE a = "fFlag"    -> FlagArgument("--flag")
      [] a = "fLong"    -> FlagArgument("--long-flag")
      [] a = "fValue"   -> ValueArgument("--value", "space", FALSE, ",")
      [] a = "fChoice"  -> ChoiceArgument("--choice", <<"a", "b", "c">>, "space", FALSE, ",")
      [] a = "dParent"  -> ValueArgument("--parent", "equal", FALSE, ",")
      [] a = "dFlag"    -> FlagArgument("--flag")
      [] a = "dNamed"   -> ValueArgument("--named", "equal", FALSE, ",")
      [] a = "dDeep"    -> FlagArgument("--deep")
      [] a = "dShadow"  -> FlagArgument("--shadow")
      [] a = "mMulti"   -> ValueArgument("--multi", "space", TRUE, "repeat")
      [] a = "mSel"     -> ChoiceArgument("--sel", <<"a", "b">>, "equal", TRUE, ",")
      [] a = "rTargets" -> ValueArgument("targets", "space", FALSE, ",")
      [] a = "rMode"    -> ChoiceArgument("--mode", <<"x", "y">>, "equal", FALSE, ",")
      [] a = "kForce"   -> FlagArgument("--force")
      [] a = "pQuiet"   -> FlagArgument("--quiet")
      [] a = "pOut"     -> ValueArgument("-o", "space", FALSE, ",")
      [] a = "iDry"     -> FlagArgument("--dry-run")
      [] a = "iSrc"     -> ValueArgument("src", "space", FALSE, ",")
      [] a = "iDst"     -> ValueArgument("--to", "equal", FALSE, ",")
      [] a = "xA"       -> FlagArgument("--all")
      [] a = "xAB"      -> FlagArgument("--almost-all")
      [] a = "xCD"      -> FlagArgument("--directory")
      [] a = "xCE"      -> ValueArgument("--exclude", "equal", FALSE, ",")
      [] a = "xCFG"     -> FlagArgument("--config")
      [] a = "xCFGH"    -> FlagArgument("--config-help")
      [] a = "eEmpty"   -> FlagArgument("--empty")
      [] a = "eA"       -> FlagArgument("--all")
      [] a = "iForce"   -> FlagArgument("--force")]
ArgDef(a) == ArgTable[a]

\* The elements of a command template
Lit(s) == [kind |-> "str", s |-> s, arg |-> "", include |-> NoneV,
           exclude |-> NoneV, scope |-> ""]
Dyn(a) == [kind |-> "argument", s |-> "", arg |-> a, include |-> NoneV,
           exclude |-> NoneV, scope |-> ""]
\* include: StrV("*") or ListV(shortcuts); exclude: NoneV or ListV(shortcuts)
MenuArguments(include, exclude, scope) ==
    [kind |-> "menu_arguments", s |-> "", arg |-> "", include |-> include,
     exclude |-> exclude, scope |-> scope]

Command(template, inplace) == [template |-> template, inplace |-> inplace]

CommandIds == {"f_t", "d1_d", "d2_d", "d2_s", "d2_i", "m_r", "m_k", "m_t",
               "p_x", "p_y", "p_z", "i_l", "i_c", "i_k"}

CommandTable == [c \in CommandIds |->
    CASE c = "f_t"  -> Command(<<Lit("mock_app"), MenuArguments(StrV("*"), NoneV, "all")>>, NoneV)
      [] c = "d1_d" -> Command(<<Lit("echo"), MenuArguments(StrV("*"), NoneV, "all")>>, NoneV)
      [] c = "d2_d" -> Command(<<Lit("echo"), MenuArguments(StrV("*"), NoneV, "all")>>, NoneV)
      [] c = "d2_s" -> Command(<<Lit("echo"),
                                 MenuArguments(StrV("*"), ListV(<<"-f">>), "this")>>,
                               NoneV)
      [] c = "d2_i" -> Command(<<MenuArguments(ListV(<<"-g", "-n", "-f">>), ListV(<<>>), "all"),
                                 Lit("end")>>, NoneV)
      [] c = "m_r"  -> Command(<<Lit("run"), Dyn("rTargets"), Dyn("rMode"),
                                 MenuArguments(ListV(<<"-m">>), NoneV, "this")>>, NoneV)
      [] c = "m_k"  -> Command(<<Lit("kill"), Dyn("kForce"), Lit("now")>>, NoneV)
      [] c = "m_t"  -> Command(<<MenuArguments(StrV("*"), NoneV, "all")>>, NoneV)
      [] c = "p_x"  -> Command(<<Lit("exec"), MenuArguments(StrV("*"), NoneV, "all")>>, NoneV)
      [] c = "p_y"  -> Command(<<Lit("yes")>>, StrV("false"))
      [] c = "p_z"  -> Command(<<Lit("zip"), MenuArguments(ListV(<<"-q">>), NoneV, "this")>>,
                               StrV("true"))
      [] c = "i_l"  -> Command(<<Lit("ls")>>, NoneV)
      [] c = "i_c"  -> Command(<<Lit("cp"), Dyn("iSrc"), Dyn("iDst"),
                                 MenuArguments(StrV("*"), NoneV, "this")>>, NoneV)
      [] c = "i_k"  -> Command(<<Lit("kill"), Dyn("iForce"), Lit("now")>>, NoneV)]
CommandDef(c) == CommandTable[c]

MenuIds == {"F", "D0", "D1", "D2", "M", "P", "I", "X", "E"}
EntryMenus == {"F", "D0", "M", "P"}
\* the in-place modes (YakariApp.inplace) each menu is started in
InplaceModes(menu) == IF menu = "P" THEN BOOLEAN ELSE {FALSE}

Menu(arguments, menus, commands) ==
    [arguments |-> arguments, menus |-> menus, commands |-> commands]

MenuTable == [m \in MenuIds |->
    CASE m = "F"  -> Menu(<<Entry("-f", "fFlag"), Entry("-v", "fValue"),
                            Entry("-c", "fChoice"), Entry("--long-flag", "fLong")>>,
                          <<>>,
                          <<Entry("t", "f_t")>>)
      [] m = "D0" -> Menu(<<Entry("-p", "dParent")>>,
                          <<Entry("a", "D1")>>,
                          <<>>)
      [] m = "D1" -> Menu(<<Entry("-f", "dFlag"), Entry("-n", "dNamed")>>,
                          <<Entry("b", "D2")>>,
                          <<Entry("d", "d1_d")>>)
      [] m = "D2" -> Menu(<<Entry("-g", "dDeep"), Entry("-f", "dShadow")>>,
                          <<>>,
                          <<Entry("d", "d2_d"), Entry("s", "d2_s"), Entry("i", "d2_i")>>)
      [] m = "M"  -> Menu(<<Entry("-m", "mMulti"), Entry("-s", "mSel")>>,
                          <<>>,
                          <<Entry("r", "m_r"), Entry("k", "m_k"), Entry("t", "m_t")>>)
      [] m = "P"  -> Menu(<<Entry("-q", "pQuiet"), Entry("-o", "pOut")>>,
                          <<>>,
                          <<Entry("x", "p_x"), Entry("y", "p_y"), Entry("z", "p_z")>>)
      [] m = "I"  -> Menu(<<Entry("-n", "iDry")>>,
                          <<>>,
                          <<Entry("l", "i_l"), Entry("c", "i_c"), Entry("k", "i_k")>>)
      [] m = "X"  -> Menu(<<Entry("a", "xA"), Entry("ab", "xAB"), Entry("cd", "xCD"),
                            Entry("ce", "xCE"), Entry("cfg", "xCFG"),
                            Entry("cfgh", "xCFGH")>>,
                          <<>>,
                          <<>>)
      [] m = "E"  -> Menu(<<Entry("", "eEmpty"), Entry("a", "eA")>>,
                          <<>>,
                          <<>>)]
MenuDef(m) == MenuTable[m]

\* What the user may submit in a value input (Texts), what the user adds as
\* a tag of a multi-value input (TagTexts), and the initial values
Texts == {"", "foo"}
TagTexts == {"foo", "bar"}
InitialValue(a) == IF a = "dParent" THEN StrV("100") ELSE NoneV

\* The printable keys the user presses on the screen of a menu: every
\* character of a shortcut of the menu, and one that occurs in none ("#"
\* stands for every such key: no shortcut starts with what it is added to)
ShortcutsTable == [menu \in MenuIds |->
    Keys(MenuDef(menu).arguments) \cup Keys(MenuDef(menu).menus)
        \cup Keys(MenuDef(menu).commands)]
ShortcutsOf(menu) == ShortcutsTable[menu]
KeyboardTable == [menu \in MenuIds |->
    UNION {{SubSeq(k, i, i) : i \in 1..Len(k)} : k \in ShortcutsOf(menu)} \cup {"#"}]
Keyboard(menu) == KeyboardTable[menu]

----------------------------------------------------------------------------
(* The argument model: enabled, get_value_list, render_template.  They     *)
(* read the argument state of a state record s (fields on, value,          *)
(* selected).                                                              *)

\* FlagArgument.enabled, ChoiceArgument.enabled, ValueArgument.enabled
enabled(s, a) ==
    CASE ArgDef(a).type = "flag"   -> s.on[a]
      [] ArgDef(a).type = "choice" -> ~IsNone(s.selected[a])
      [] ArgDef(a).type = "value"  -> ~IsNone(s.value[a])

\* ChoiceArgument.get_value_list, ValueArgument.get_value_list: None, or
\* the list (a bare string becomes a one-element list)
get_value_list(s, a) ==
    LET x == IF ArgDef(a).type = "choice" THEN s.selected[a] ELSE s.value[a]
    IN  IF IsNone(x) THEN NoneV ELSE ListV(x.v)

\* NamedArgument.positional, of the argument definition d
positional(d) == ~StartsWith(d.name, "-")

\* the loop of the "repeat" style: one pair or one name=value per value
RECURSIVE RenderRepeat(_, _, _)
RenderRepeat(name, separator, values) ==
    IF values = <<>> THEN <<>>
    ELSE (IF separator = "space"
          THEN <<name, Head(values)>>
          ELSE <<name \o "=" \o Head(values)>>)
         \o RenderRepeat(name, separator, Tail(values))

\* what Python raises an exception for (values[0] of an empty list, join of
\* None): no state of the model renders it
ErrorV == [tag |-> "error", v |-> <<>>]

\* NamedArgument.render_template with no custom template
NamedRender(d, vl) ==
    IF IsNone(vl) THEN ErrorV
    ELSE LET values == vl.v IN
         IF positional(d)
         THEN IF d.multi_style = "repeat"
              THEN ListV(values)
              ELSE StrV(Join(d.multi_style, values))
         ELSE IF ~d.multi
         THEN IF values = <<>> THEN ErrorV
              ELSE IF d.separator = "space"
                   THEN ListV(<<d.name, values[1]>>)
                   ELSE StrV(d.name \o "=" \o values[1])
         ELSE IF d.multi_style = "repeat"
         THEN ListV(RenderRepeat(d.name, d.separator, values))
         ELSE IF d.separator = "space"
              THEN ListV(<<d.name, Join(d.multi_style, values)>>)
              ELSE StrV(d.name \o "=" \o Join(d.multi_style, values))

\* Argument.render_template: a flag renders its template "{self.flag}"
render_template(s, a) ==
    IF ArgDef(a).type = "flag"
    THEN StrV(ArgDef(a).name)
    ELSE NamedRender(ArgDef(a), get_value_list(s, a))

\* CommandTemplateResolver.resolve.update_resolved_command
update_resolved_command(resolved_command, rendered_argument) ==
    CASE rendered_argument.tag = "str"  -> Append(resolved_command, rendered_argument.v[1])
      [] rendered_argument.tag = "list" -> resolved_command \o rendered_argument.v
      [] OTHER -> resolved_command

----------------------------------------------------------------------------
(* MenuArguments.resolve_arguments *)

\* resolve_arguments, were it to update with the menu's arguments first
ResolveDicts_MenuFirst(part, ancestors_arguments, arguments) ==
    LET merged == DictUpdate(arguments,
                             IF part.scope = "all" THEN ancestors_arguments ELSE <<>>)
        included == IF part.include = StrV("*")
                    THEN merged
                    ELSE DictFilter(merged, Range(part.include.v))
    IN  IF Truthy(part.exclude)
        THEN DictFilter(included, Keys(included) \ Range(part.exclude.v))
        ELSE included

\* the function itself, on the two dictionaries
ResolveDicts(part, ancestors_arguments, arguments) ==
    LET merged == DictUpdate(IF part.scope = "all" THEN ancestors_arguments ELSE <<>>,
                             arguments)
        included == IF part.include = StrV("*")
                    THEN merged
                    ELSE DictFilter(merged, Range(part.include.v))
    IN  IF Truthy(part.exclude)
        THEN DictFilter(included, Keys(included) \ Range(part.exclude.v))
        ELSE included

resolve_arguments(s, part, menu) ==
    ResolveDicts(part, s.ancestors[menu], MenuDef(menu).arguments)


----------------------------------------------------------------------------
(* The state as one record, so that a handler is an operator from the      *)
(* state before it to the state after it.                                  *)

State ==
    [stack |-> stack, on |-> on, value |-> value, selected |-> selected,
     ancestors |-> ancestors, modal |-> modal, pending |-> pending,
     command |-> command, app |-> app, ev |-> ev]

\* the active MenuScreen
Top(s) == s.stack[Len(s.stack)]
SetCurInput(s, x) == [s EXCEPT !.stack[Len(s.stack)].cur_input = x]

\* MenuScreen.__init__
MenuScreen(menu, is_entrypoint) ==
    [menu |-> menu, is_entrypoint |-> is_entrypoint, edit_mode |-> FALSE,
     cur_input |-> ""]

NoModal == [kind |-> "none", arg |-> "", tags |-> <<>>]
NoPending == [kind |-> "none", cmd |-> "", idx |-> 0, acc |-> <<>>]

\* what the last handler did: its name, the shortcut of the dispatch it
\* started (it called process_match) or resumed, the arguments that command
\* dispatch handed to process_argument_fn so far, and how a command
\* dispatch ended ("", "resolved", "aborted")
Event(op) == [op |-> op, dispatched |-> NoneV, prompted |-> <<>>, outcome |-> ""]
Resumed(s, op) ==
    [Event(op) EXCEPT !.dispatched = s.ev.dispatched, !.prompted = s.ev.prompted]

\* MenuScreen.__init__: self.candidates = {**arguments, **menus, **commands}
Tagged(d, kind) ==
    [i \in 1..Len(d) |-> Entry(d[i].key, [kind |-> kind, id |-> d[i].val])]
MenuScreenCandidates(menu_def) ==
    DictUpdate(DictUpdate(Tagged(menu_def.arguments, "argument"),
                          Tagged(menu_def.menus, "menu")),
               Tagged(menu_def.commands, "command"))
CandidatesTable == [menu \in MenuIds |-> MenuScreenCandidates(MenuDef(menu))]
candidates(menu) == CandidatesTable[menu]

\* string_matches_candidates that takes a shortcut for a partial match
\* while a longer shortcut starts with it
string_matches_candidates_Longest(menu, str) ==
    LET candidates_set == Keys(candidates(menu)) IN
    IF str \in candidates_set
       /\ ~\E key \in candidates_set : key /= str /\ StartsWith(key, str)
    THEN [exact_match |-> StrV(str), partial_matches |-> {}]
    ELSE [exact_match |-> NoneV,
          partial_matches |-> {key \in candidates_set : StartsWith(key, str)}]

\* MenuScreen.string_matches_candidates; partial_matches is built from a
\* set, so its order is not determined: it is a set here
string_matches_candidates(menu, str) ==
    LET candidates_set == Keys(candidates(menu)) IN
    IF str \in candidates_set
    THEN [exact_match |-> StrV(str), partial_matches |-> {}]
    ELSE [exact_match |-> NoneV,
          partial_matches |-> {key \in candidates_set : StartsWith(key, str)}]

----------------------------------------------------------------------------
(* MenuScreen.process_argument and the input screens it presents *)

\* ChoiceArgumentInputScreen.__init__ / ValueArgumentInputScreen.__init__
\* with ArgumentInput.__init__: a multi-value input starts with the tags of
\* the current value
ChoiceArgumentInputScreen(a) == [kind |-> "choice", arg |-> a, tags |-> <<>>]
ValueArgumentInputScreen(s, a) ==
    [kind |-> "value", arg |-> a,
     tags |-> IF ArgDef(a).multi /\ Truthy(s.value[a]) /\ s.value[a].tag = "list"
              THEN s.value[a].v ELSE <<>>]

\* set_argument_value_and_reset_input that leaves the input as it is
set_argument_value_KeepsInput(s, a, v) ==
    IF ArgDef(a).type = "choice"
    THEN [s EXCEPT !.selected[a] = IF IsNone(v) THEN NoneV ELSE ListV(v.v)]
    ELSE [s EXCEPT !.value[a] = v]

\* process_argument.set_argument_value_and_reset_input, of either branch
set_argument_value_and_reset_input(s, a, v) ==
    IF ArgDef(a).type = "choice"
    THEN SetCurInput([s EXCEPT !.selected[a] =
                          IF IsNone(v) THEN NoneV ELSE ListV(v.v)], "")
    ELSE SetCurInput([s EXCEPT !.value[a] = v], "")

\* the test that decides between disabling and presenting the input screen
ToggleOff(s, a, action) ==
    /\ action = "toggle"
    /\ IF ArgDef(a).type = "choice"
       THEN Truthy(s.selected[a])
       ELSE ~IsNone(s.value[a])

\* process_argument whose flag dispatch turns the flag on and never off
process_argument_FlagSticks(s, a, action) ==
    CASE ArgDef(a).type = "flag" ->
            SetCurInput([s EXCEPT !.on[a] = TRUE], "")
      [] ArgDef(a).type = "choice" ->
            IF ToggleOff(s, a, action)
            THEN set_argument_value_and_reset_input(s, a, NoneV)
            ELSE [s EXCEPT !.modal = ChoiceArgumentInputScreen(a)]
      [] ArgDef(a).type = "value" ->
            IF ToggleOff(s, a, action)
            THEN set_argument_value_and_reset_input(s, a, NoneV)
            ELSE [s EXCEPT !.modal = ValueArgumentInputScreen(s, a)]

\* MenuScreen.process_argument, up to the point where it awaits the input
\* screen it pushed (s.modal is then that screen)
process_argument(s, a, action) ==
    CASE ArgDef(a).type = "flag" ->
            SetCurInput([s EXCEPT !.on[a] = ~s.on[a]], "")
      [] ArgDef(a).type = "choice" ->
            IF ToggleOff(s, a, action)
            THEN set_argument_value_and_reset_input(s, a, NoneV)
            ELSE [s EXCEPT !.modal = ChoiceArgumentInputScreen(a)]
      [] ArgDef(a).type = "value" ->
            IF ToggleOff(s, a, action)
            THEN set_argument_value_and_reset_input(s, a, NoneV)
            ELSE [s EXCEPT !.modal = ValueArgumentInputScreen(s, a)]


----------------------------------------------------------------------------
(* MenuScreen.process_command and CommandTemplateResolver.resolve *)

ResultsScreen == [kind |-> "results", arg |-> "", tags |-> <<>>]
NoRun == [op |-> "none", command |-> <<>>, text |-> ""]

\* the loop, were it to render the arguments that are disabled too
RECURSIVE AppendEnabled_IgnoresEnabled(_, _, _)
AppendEnabled_IgnoresEnabled(s, resolved_command, arguments) ==
    IF arguments = <<>> THEN resolved_command
    ELSE LET argument == Head(arguments).val IN
         AppendEnabled_IgnoresEnabled(s,
                       update_resolved_command(resolved_command,
                                               render_template(s, argument)),
                       Tail(arguments))

\* the loop over the resolved arguments of a MenuArguments part
RECURSIVE AppendEnabled(_, _, _)
AppendEnabled(s, resolved_command, arguments) ==
    IF arguments = <<>> THEN resolved_command
    ELSE LET argument == Head(arguments).val IN
         AppendEnabled(s,
                       IF enabled(s, argument)
                       THEN update_resolved_command(resolved_command,
                                                    render_template(s, argument))
                       ELSE resolved_command,
                       Tail(arguments))

\* process_command_done that, when resolution aborted, takes back the
\* values given to the template's arguments
process_command_done_RollsBack(s, c, result) ==
    LET embedded == {CommandDef(c).template[i].arg :
                        i \in {j \in 1..Len(CommandDef(c).template) :
                                  CommandDef(c).template[j].kind = "argument"}}
        s0 == IF IsNone(result)
              THEN [s EXCEPT !.value = [a \in ValueIds |->
                                           IF a \in embedded THEN NoneV ELSE s.value[a]],
                             !.selected = [a \in ChoiceIds |->
                                           IF a \in embedded THEN NoneV ELSE s.selected[a]]]
              ELSE s
        s1 == SetCurInput([s0 EXCEPT !.command = result,
                                     !.ev.outcome = IF IsNone(result)
                                                    THEN "aborted" ELSE "resolved"], "")
        command_str == Join(" ", result.v)
        inplace == IF ~IsNone(CommandDef(c).inplace)
                   THEN CommandDef(c).inplace = StrV("true")
                   ELSE s.app.inplace
    IN  IF IsNone(result) THEN s1
        ELSE IF s.app.dry_run
        THEN IF inplace
             THEN [s1 EXCEPT !.modal = ResultsScreen,
                             !.app.runner = [op |-> "write", command |-> <<>>,
                                             text |-> "$> " \o command_str]]
             ELSE [s1 EXCEPT !.app.exited = TRUE, !.app.result = NoneV,
                             !.app.message = command_str]
        ELSE IF inplace
             THEN [s1 EXCEPT !.modal = ResultsScreen,
                             !.app.runner = [op |-> "start", command |-> result.v,
                                             text |-> ""]]
             ELSE [s1 EXCEPT !.app.exited = TRUE, !.app.result = result,
                             !.app.message = command_str]

\* process_command_done that takes the in-place mode from the application
\* alone
process_command_done_AppInplace(s, c, result) ==
    LET s1 == SetCurInput([s EXCEPT !.command = result,
                                    !.ev.outcome = IF IsNone(result)
                                                   THEN "aborted" ELSE "resolved"], "")
        command_str == Join(" ", result.v)
        inplace == s.app.inplace
    IN  IF IsNone(result) THEN s1
        ELSE IF s.app.dry_run
        THEN IF inplace
             THEN [s1 EXCEPT !.modal = ResultsScreen,
                             !.app.runner = [op |-> "write", command |-> <<>>,
                                             text |-> "$> " \o command_str]]
             ELSE [s1 EXCEPT !.app.exited = TRUE, !.app.result = NoneV,
                             !.app.message = command_str]
        ELSE IF inplace
             THEN [s1 EXCEPT !.modal = ResultsScreen,
                             !.app.runner = [op |-> "start", command |-> result.v,
                                             text |-> ""]]
             ELSE [s1 EXCEPT !.app.exited = TRUE, !.app.result = result,
                             !.app.message = command_str]

\* process_command_done that does not look at dry_run
process_command_done_IgnoresDryRun(s, c, result) ==
    LET s1 == SetCurInput([s EXCEPT !.command = result,
                                    !.ev.outcome = IF IsNone(result)
                                                   THEN "aborted" ELSE "resolved"], "")
        command_str == Join(" ", result.v)
        inplace == IF ~IsNone(CommandDef(c).inplace)
                   THEN CommandDef(c).inplace = StrV("true")
                   ELSE s.app.inplace
    IN  IF IsNone(result) THEN s1
        ELSE IF inplace
             THEN [s1 EXCEPT !.modal = ResultsScreen,
                             !.app.runner = [op |-> "start", command |-> result.v,
                                             text |-> ""]]
             ELSE [s1 EXCEPT !.app.exited = TRUE, !.app.result = result,
                             !.app.message = command_str]

\* MenuScreen.process_command from the return of resolve on: record the
\* command, clear the input and, unless resolution aborted, show, run or
\* exit with the command
process_command_done(s, c, result) ==
    LET s1 == SetCurInput([s EXCEPT !.command = result,
                                    !.ev.outcome = IF IsNone(result)
                                                   THEN "aborted" ELSE "resolved"], "")
        command_str == Join(" ", result.v)
        inplace == IF ~IsNone(CommandDef(c).inplace)
                   THEN CommandDef(c).inplace = StrV("true")
                   ELSE s.app.inplace
    IN  IF IsNone(result) THEN s1
        ELSE IF s.app.dry_run
        THEN IF inplace
             THEN [s1 EXCEPT !.modal = ResultsScreen,
                             !.app.runner = [op |-> "write", command |-> <<>>,
                                             text |-> "$> " \o command_str]]
             ELSE [s1 EXCEPT !.app.exited = TRUE, !.app.result = NoneV,
                             !.app.message = command_str]
        ELSE IF inplace
             THEN [s1 EXCEPT !.modal = ResultsScreen,
                             !.app.runner = [op |-> "start", command |-> result.v,
                                             text |-> ""]]
             ELSE [s1 EXCEPT !.app.exited = TRUE, !.app.result = result,
                             !.app.message = command_str]

\* the callback, were it to pass the default action
process_argument_fn_Toggle(s, argument) == process_argument(s, argument, "toggle")

\* the callback, were it to leave an argument that is enabled as it is
process_argument_fn_KeepsEnabled(s, argument) ==
    IF enabled(s, argument) THEN s ELSE process_argument(s, argument, "edit")

\* MenuScreen.process_command.process_argument_fn, the callback handed to
\* the resolver
process_argument_fn(s, argument) == process_argument(s, argument, "edit")

RECURSIVE resolve(_, _, _, _)
RECURSIVE resolve_argument(_, _, _, _)

\* CommandTemplateResolver.resolve from template[idx] on, with the tokens
\* resolved so far, until it returns or awaits an input screen
resolve(s, c, idx, resolved_command) ==
    LET template == CommandDef(c).template IN
    IF idx > Len(template)
    THEN process_command_done(s, c, ListV(resolved_command))
    ELSE LET part == template[idx] IN
         CASE part.kind = "str" ->
                resolve(s, c, idx + 1, Append(resolved_command, part.s))
           [] part.kind = "argument" ->
                LET s1 == process_argument_fn(
                              [s EXCEPT !.ev.prompted = Append(@, part.arg)],
                              part.arg)
                IN  IF s1.modal.kind /= "none"
                    THEN [s1 EXCEPT !.pending =
                              [kind |-> "command", cmd |-> c, idx |-> idx,
                               acc |-> resolved_command]]
                    ELSE resolve_argument(s1, c, idx, resolved_command)
           [] part.kind = "menu_arguments" ->
                resolve(s, c, idx + 1,
                        AppendEnabled(s, resolved_command,
                                      resolve_arguments(s, part, Top(s).menu)))

\* resolve, after process_argument_fn returned for the argument at idx
resolve_argument(s, c, idx, resolved_command) ==
    LET argument == CommandDef(c).template[idx].arg IN
    IF enabled(s, argument)
    THEN resolve(s, c, idx + 1,
                 update_resolved_command(resolved_command,
                                         render_template(s, argument)))
    ELSE process_command_done(s, c, NoneV)

process_command(s, c) == resolve(s, c, 1, <<>>)

\* process_menu that opens the sub-menu screen in the mode of its parent
process_menu_KeepsMode(s, menu) ==
    [s EXCEPT !.ancestors[menu] = MenuDef(Top(s).menu).arguments,
              !.stack = Append(@, [MenuScreen(menu, FALSE) EXCEPT
                                       !.edit_mode = Top(s).edit_mode])]

\* MenuScreen.process_menu, up to the point where it awaits the screen
process_menu(s, menu) ==
    [s EXCEPT !.ancestors[menu] = MenuDef(Top(s).menu).arguments,
              !.stack = Append(@, MenuScreen(menu, FALSE))]

\* MenuScreen.process_match
process_match(s, match_value) ==
    CASE match_value.kind = "argument" ->
            LET s1 == process_argument(s, match_value.id,
                                       IF Top(s).edit_mode THEN "edit" ELSE "toggle")
            IN  IF s1.modal.kind /= "none"
                THEN [s1 EXCEPT !.pending = [kind |-> "argument", cmd |-> "",
                                             idx |-> 0, acc |-> <<>>]]
                ELSE s1
      [] match_value.kind = "command" -> process_command(s, match_value.id)
      [] match_value.kind = "menu" -> process_menu(s, match_value.id)

\* Screen.dismiss(v) of an input screen: the screen is popped and the
\* dispatch that awaited it resumes with v
dismiss(s, v) ==
    LET a == s.modal.arg
        p == s.pending
        s1 == set_argument_value_and_reset_input(
                  [s EXCEPT !.modal = NoModal, !.pending = NoPending], a, v)
    IN  IF p.kind = "command"
        THEN resolve_argument(s1, p.cmd, p.idx, p.acc)
        ELSE s1


----------------------------------------------------------------------------
(* The handlers of MenuScreen *)

\* on_key that forgets the input typed so far on a partial match
on_key_NoAccumulate(s, character) ==
    LET s0 == [s EXCEPT !.ev = Event("key")]
        new_input == Top(s).cur_input \o character
        match_results == string_matches_candidates(Top(s).menu, new_input)
    IN  IF ~IsNone(match_results.exact_match)
        THEN process_match(
                 [SetCurInput(s0, new_input) EXCEPT !.ev.dispatched = StrV(new_input)],
                 Lookup(candidates(Top(s).menu), new_input))
        ELSE SetCurInput(s0, "")

\* on_key that leaves edit mode when nothing matches
on_key_LeavesEditMode(s, character) ==
    LET s0 == [s EXCEPT !.ev = Event("key")]
        new_input == Top(s).cur_input \o character
        match_results == string_matches_candidates(Top(s).menu, new_input)
    IN  IF ~IsNone(match_results.exact_match)
        THEN process_match(
                 [SetCurInput(s0, new_input) EXCEPT !.ev.dispatched = StrV(new_input)],
                 Lookup(candidates(Top(s).menu), new_input))
        ELSE IF match_results.partial_matches /= {}
        THEN SetCurInput(s0, new_input)
        ELSE [SetCurInput(s0, "") EXCEPT !.stack[Len(s.stack)].edit_mode = FALSE]

\* on_key that, when the input with the key added matches nothing,
\* dispatches the single candidate the input still matched
on_key_AutoCompletes(s, character) ==
    LET s0 == [s EXCEPT !.ev = Event("key")]
        new_input == Top(s).cur_input \o character
        match_results == string_matches_candidates(Top(s).menu, new_input)
        remaining == string_matches_candidates(Top(s).menu, Top(s).cur_input).partial_matches
    IN  IF ~IsNone(match_results.exact_match)
        THEN process_match(
                 [SetCurInput(s0, new_input) EXCEPT !.ev.dispatched = StrV(new_input)],
                 Lookup(candidates(Top(s).menu), new_input))
        ELSE IF match_results.partial_matches /= {}
        THEN SetCurInput(s0, new_input)
        ELSE IF Cardinality(remaining) = 1
        THEN LET completed == CHOOSE k \in remaining : TRUE IN
             process_match(
                 [SetCurInput(s0, completed) EXCEPT !.ev.dispatched = StrV(completed)],
                 Lookup(candidates(Top(s).menu), completed))
        ELSE SetCurInput(s0, "")

\* MenuScreen.on_key for a printable key
on_key(s, character) ==
    LET s0 == [s EXCEPT !.ev = Event("key")]
        new_input == Top(s).cur_input \o character
        match_results == string_matches_candidates(Top(s).menu, new_input)
    IN  IF ~IsNone(match_results.exact_match)
        THEN process_match(
                 [SetCurInput(s0, new_input) EXCEPT !.ev.dispatched = StrV(new_input)],
                 Lookup(candidates(Top(s).menu), new_input))
        ELSE IF match_results.partial_matches /= {}
        THEN SetCurInput(s0, new_input)
        ELSE SetCurInput(s0, "")

\* action_complete_input that completes to some match when several remain
action_complete_input_AnyMatch(s) ==
    LET s0 == [s EXCEPT !.ev = Event("tab")]
        match_results == string_matches_candidates(Top(s).menu, Top(s).cur_input)
    IN  IF Cardinality(match_results.partial_matches) >= 1
        THEN LET completed == CHOOSE k \in match_results.partial_matches : TRUE IN
             process_match(
                 [SetCurInput(s0, completed) EXCEPT !.ev.dispatched = StrV(completed)],
                 Lookup(candidates(Top(s).menu), completed))
        ELSE s0

\* MenuScreen.action_complete_input
action_complete_input(s) ==
    LET s0 == [s EXCEPT !.ev = Event("tab")]
        match_results == string_matches_candidates(Top(s).menu, Top(s).cur_input)
    IN  IF Cardinality(match_results.partial_matches) = 1
        THEN LET completed == CHOOSE k \in match_results.partial_matches : TRUE IN
             process_match(
                 [SetCurInput(s0, completed) EXCEPT !.ev.dispatched = StrV(completed)],
                 Lookup(candidates(Top(s).menu), completed))
        ELSE s0

\* action_backspace_input that erases the whole input
action_backspace_input_ErasesAll(s) ==
    LET s0 == [s EXCEPT !.ev = Event("backspace")]
        cur_input == Top(s).cur_input
    IN  IF cur_input /= ""
        THEN SetCurInput(s0, "")
        ELSE IF ~Top(s).is_entrypoint
        THEN SetCurInput([s0 EXCEPT !.stack = SubSeq(@, 1, Len(@) - 1)], "")
        ELSE s0

\* action_backspace_input whose pop turns off the flags of the menu it leaves
action_backspace_input_PopClearsFlags(s) ==
    LET s0 == [s EXCEPT !.ev = Event("backspace")]
        cur_input == Top(s).cur_input
        left == {Lookup(MenuDef(Top(s).menu).arguments, k) :
                    k \in Keys(MenuDef(Top(s).menu).arguments)}
    IN  IF cur_input /= ""
        THEN SetCurInput(s0, SubSeq(cur_input, 1, Len(cur_input) - 1))
        ELSE IF ~Top(s).is_entrypoint
        THEN SetCurInput([s0 EXCEPT !.stack = SubSeq(@, 1, Len(@) - 1),
                                    !.on = [a \in FlagIds |->
                                               IF a \in left THEN FALSE ELSE s.on[a]]],
                         "")
        ELSE s0

\* MenuScreen.action_backspace_input; dismiss(None) pops this screen and
\* the process_menu of the screen below resumes and clears its input
action_backspace_input(s) ==
    LET s0 == [s EXCEPT !.ev = Event("backspace")]
        cur_input == Top(s).cur_input
    IN  IF cur_input /= ""
        THEN SetCurInput(s0, SubSeq(cur_input, 1, Len(cur_input) - 1))
        ELSE IF ~Top(s).is_entrypoint
        THEN SetCurInput([s0 EXCEPT !.stack = SubSeq(@, 1, Len(@) - 1)], "")
        ELSE s0

\* MenuScreen.action_change_mode
action_change_mode(s) ==
    [s EXCEPT !.ev = Event("change_mode"),
              !.stack[Len(s.stack)].edit_mode = ~Top(s).edit_mode]

\* MenuScreen.action_show_results
action_show_results(s) ==
    IF s.app.inplace
    THEN [s EXCEPT !.ev = Event("show_results"), !.modal = ResultsScreen]
    ELSE [s EXCEPT !.ev = Event("show_results")]

----------------------------------------------------------------------------
(* The handlers of the input screens *)

\* the lists a multi-select can submit: the checked choices, in the order
\* they were checked
Selections(choices) ==
    {q \in UNION {[1..n -> Range(choices)] : n \in 0..Len(choices)} :
        \A i, j \in 1..Len(q) : i /= j => q[i] /= q[j]}

\* ArgumentInput.on_input_submitted, with the dismiss it leads to through
\* ValueArgumentInputScreen.on_argument_input_submitted
on_input_submitted(s, text) ==
    LET s0 == [s EXCEPT !.ev = Resumed(s, "submit")] IN
    IF ArgDef(s.modal.arg).multi
    THEN IF text = ""
         THEN dismiss(s0, ListV(s.modal.tags))
         ELSE [s0 EXCEPT !.modal.tags = Append(@, text)]
    ELSE dismiss(s0, StrV(text))

\* TagsCollection.on_tag_deleted
on_tag_deleted(s, i) ==
    [s EXCEPT !.ev = Resumed(s, "tag_deleted"),
              !.modal.tags = SubSeq(@, 1, i - 1) \o SubSeq(@, i + 1, Len(@))]

\* ChoiceArgumentInputScreen.on_option_list_option_selected and
\* on_selection_list_selection_submitted
on_choice_submitted(s, v) ==
    dismiss([s EXCEPT !.ev = Resumed(s, "submit")], v)

\* action_cancel that hands back the value the argument had
action_cancel_KeepsValue(s) ==
    dismiss([s EXCEPT !.ev = Resumed(s, "cancel")],
            IF ArgDef(s.modal.arg).type = "choice"
            THEN s.selected[s.modal.arg] ELSE s.value[s.modal.arg])

\* ChoiceArgumentInputScreen.action_cancel, ValueArgumentInputScreen.action_cancel
\* and ArgumentInput.action_cancel
action_cancel(s) ==
    dismiss([s EXCEPT !.ev = Resumed(s, "cancel")], NoneV)

\* ResultsScreen.action_pop_screen
action_pop_screen(s) == [s EXCEPT !.ev = Event("pop_screen"), !.modal = NoModal]

----------------------------------------------------------------------------
(* The specification *)

\* the next state of the navigation is s (s is evaluated once)
ApplyScreens(s) ==
    \E t \in {s} :
        /\ ev' = t.ev
        /\ stack' = t.stack
        /\ on' = t.on
        /\ value' = t.value
        /\ selected' = t.selected
        /\ ancestors' = t.ancestors
        /\ modal' = t.modal
        /\ pending' = t.pending
        /\ command' = t.command
        /\ app' = t.app

\* the next state is s
Apply(s) == ApplyScreens(s) /\ UNCHANGED aux_vars

\* no key sent by a typing scenario
NoKey == [input |-> "", key |-> ""]

\* no NamedArgument rendered on its own
NoRender == [argument |-> <<>>, values |-> <<>>, returned |-> FALSE, result |-> NoneV]

\* CommandRunner.__init__: nothing logged, no subprocess, extra_stdout
\* empty; procs are the subprocesses started so far
NoRunner == [log |-> <<>>, _process_running |-> FALSE, subprocess |-> 0,
             extra_stdout |-> "", mounted |-> TRUE, procs |-> <<>>]

\* no call of resolve_arguments other than those of the resolver
NoCall == [part |-> MenuArguments(StrV("*"), NoneV, "all"), ancestors_arguments |-> <<>>,
           arguments |-> <<>>, returned |-> FALSE, result |-> <<>>]

\* no input session, no suggestions source and no construction other than
\* those of the running application
NoHistory == [max_size |-> 0, values |-> <<>>, log |-> <<>>, store |-> <<>>,
              session |-> NoneV, open |-> FALSE, suggested |-> <<>>,
              cur_pos |-> <<>>, op |-> "", returned |-> NoneV]
NoRead == [executed |-> FALSE, raised |-> FALSE, returned |-> <<>>,
           stdout |-> "", stderr |-> "", returncode |-> 0]
NoSuggestions == [cache |-> FALSE, suggestions |-> <<>>, reads |-> 0, runs |-> 0,
                  populated |-> FALSE, first |-> <<>>, last |-> NoRead]
NotBuilt == [source |-> <<>>, result |-> <<>>]

\* YakariApp.__init__ and on_mount
Init ==
    /\ stack \in {<<MenuScreen(menu, TRUE)>> : menu \in EntryMenus}
    /\ on = [a \in FlagIds |-> FALSE]
    /\ value = [a \in ValueIds |-> InitialValue(a)]
    /\ selected = [a \in ChoiceIds |-> NoneV]
    /\ ancestors = [m \in MenuIds |-> <<>>]
    /\ modal = NoModal
    /\ pending = NoPending
    /\ command = NoneV
    /\ \E dry_run \in BOOLEAN, inplace \in InplaceModes(stack[1].menu) :
          app = [dry_run |-> dry_run, inplace |-> inplace, exited |-> FALSE,
                 result |-> NoneV, message |-> "", runner |-> NoRun]
    /\ ev = Event("init")
    /\ call = NoCall
    /\ hist = NoHistory
    /\ sugg = NoSuggestions
    /\ built = NotBuilt
    /\ pressed = NoKey /\ rendered = NoRender /\ cmd_runner = NoRunner

\* the active screen is a MenuScreen that awaits nothing
MenuIdle == ~app.exited /\ modal.kind = "none"

Key ==
    /\ MenuIdle
    /\ \E character \in Keyboard(stack[Len(stack)].menu) :
          Apply(on_key(State, character))
Tab == MenuIdle /\ Apply(action_complete_input(State))
Backspace == MenuIdle /\ Apply(action_backspace_input(State))
ChangeMode == MenuIdle /\ Apply(action_change_mode(State))
ShowResults == MenuIdle /\ Apply(action_show_results(State))
HideResults == ~app.exited /\ modal.kind = "results" /\ Apply(action_pop_screen(State))

InputSubmitted ==
    /\ ~app.exited /\ modal.kind = "value"
    /\ \/ \E text \in Texts :
             /\ ArgDef(modal.arg).multi => text = ""
             /\ Apply(on_input_submitted(State, text))
       \/ \E text \in TagTexts :
             /\ ArgDef(modal.arg).multi
             /\ Len(modal.tags) < MaxTags
             /\ Apply(on_input_submitted(State, text))
TagDeleted ==
    /\ ~app.exited /\ modal.kind = "value"
    /\ \E i \in 1..Len(modal.tags) : Apply(on_tag_deleted(State, i))
OptionSelected ==
    /\ ~app.exited /\ modal.kind = "choice" /\ ~ArgDef(modal.arg).multi
    /\ \E i \in 1..Len(ArgDef(modal.arg).choices) :
          Apply(on_choice_submitted(State, StrV(ArgDef(modal.arg).choices[i])))
SelectionSubmitted ==
    /\ ~app.exited /\ modal.kind = "choice" /\ ArgDef(modal.arg).multi
    /\ \E selection \in Selections(ArgDef(modal.arg).choices) :
          Apply(on_choice_submitted(State, ListV(selection)))
Cancel ==
    /\ ~app.exited /\ modal.kind \in {"choice", "value"}
    /\ Apply(action_cancel(State))

Next ==
    \/ Key
    \/ Tab
    \/ Backspace
    \/ ChangeMode
    \/ ShowResults
    \/ HideResults
    \/ InputSubmitted
    \/ TagDeleted
    \/ OptionSelected
    \/ SelectionSubmitted
    \/ Cancel

Spec == Init /\ [][Next]_vars


----------------------------------------------------------------------------
(* Properties of the key-sequence matcher *)

CurScreen == stack[Len(stack)]
CurMenu == CurScreen.menu
CurInput == CurScreen.cur_input

\* the item a menu declares under a shortcut, as the screen's candidates
\* resolve it (a command hides a menu, a menu hides an argument)
Declared(menu, k) ==
    IF k \in Keys(MenuDef(menu).commands)
    THEN [kind |-> "command", id |-> Lookup(MenuDef(menu).commands, k)]
    ELSE IF k \in Keys(MenuDef(menu).menus)
    THEN [kind |-> "menu", id |-> Lookup(MenuDef(menu).menus, k)]
    ELSE [kind |-> "argument", id |-> Lookup(MenuDef(menu).arguments, k)]

\* the step dispatched the item declared under shortcut k: the handler
\* called process_match on it, and the item's dispatch began
DispatchedItem(k) ==
    LET item == Declared(CurMenu, k) IN
    /\ ev'.dispatched = StrV(k)
    /\ CASE item.kind = "menu" ->
              /\ Len(stack') = Len(stack) + 1
              /\ stack'[Len(stack')].menu = item.id
         [] item.kind = "command" ->
              \/ ev'.outcome \in {"resolved", "aborted"}
              \/ pending'.kind = "command" /\ pending'.cmd = item.id
         [] item.kind = "argument" /\ ArgDef(item.id).type = "flag" ->
              on' = [on EXCEPT ![item.id] = ~on[item.id]]
         [] item.kind = "argument" /\ ArgDef(item.id).type = "choice" ->
              \/ modal'.kind = "choice" /\ modal'.arg = item.id
              \/ selected' = [selected EXCEPT ![item.id] = NoneV]
         [] item.kind = "argument" /\ ArgDef(item.id).type = "value" ->
              \/ modal'.kind = "value" /\ modal'.arg = item.id
              \/ value' = [value EXCEPT ![item.id] = NoneV]

\* the step dispatched nothing and changed at most the input of the active
\* screen
OnlyCurInputChanged ==
    /\ ev'.dispatched = NoneV
    /\ ev'.outcome = ""
    /\ UNCHANGED <<on, value, selected, ancestors, modal, pending, command, app>>
    /\ stack' = [stack EXCEPT ![Len(stack)].cur_input = stack'[Len(stack)].cur_input]

\* C1: on every printable keystroke c handled by the active menu screen,
\* with new_input = cur_input + c: if new_input is a candidate shortcut,
\* that candidate is dispatched; otherwise, if some candidate shortcut
\* starts with new_input, cur_input becomes new_input and nothing is
\* dispatched; otherwise cur_input becomes "" and nothing is dispatched.
C1_KeyRule(c) ==
    LET new_input == CurInput \o c IN
    IF new_input \in ShortcutsOf(CurMenu)
    THEN DispatchedItem(new_input)
    ELSE IF \E k \in ShortcutsOf(CurMenu) : StartsWith(k, new_input)
    THEN OnlyCurInputChanged /\ stack'[Len(stack)].cur_input = new_input
    ELSE OnlyCurInputChanged /\ stack'[Len(stack)].cur_input = ""

C1_KeyDispatch ==
    [][(ev'.op = "key" /\ MenuIdle) =>
          \A c \in Keyboard(CurMenu) :
              C1_KeyRule(c) \/ ~Apply(on_key(State, c))]_vars

\* a key completed the shortcut "-f" of the fixture menu after the partial
\* match "-", and the flag was dispatched
C1_Witness ==
    /\ CurMenu = "F" /\ ev.op = "key" /\ ev.dispatched = StrV("-f")
    /\ on["fFlag"] /\ CurInput = ""

\* C2: tab dispatches a candidate if and only if exactly one candidate
\* shortcut has cur_input as a prefix; then the state after it is the one
\* reached by typing that shortcut in full; otherwise tab changes neither
\* cur_input nor any argument, command or stack state.
C2_TabCompletes ==
    [][(MenuIdle /\ Apply(action_complete_input(State))) =>
          LET matches == {k \in ShortcutsOf(CurMenu) : StartsWith(k, CurInput)} IN
          IF Cardinality(matches) = 1
          THEN LET k == CHOOSE k \in matches : TRUE
                   typed == on_key(SetCurInput(State, SubSeq(k, 1, Len(k) - 1)),
                                   SubSeq(k, Len(k), Len(k)))
               IN  /\ DispatchedItem(k)
                   /\ Apply([typed EXCEPT !.ev.op = "tab"])
          ELSE /\ ev'.dispatched = NoneV
               /\ UNCHANGED <<stack, on, value, selected, ancestors, modal,
                              pending, command, app>>]_vars

\* tab completed "--long" (or a shorter prefix) to "--long-flag" and the
\* flag was dispatched
C2_Witness ==
    /\ CurMenu = "F" /\ ev.op = "tab" /\ ev.dispatched = StrV("--long-flag")
    /\ on["fLong"] /\ CurInput = ""

\* C3: backspace on a menu screen removes exactly the last character of a
\* non-empty cur_input and does nothing else; on an empty cur_input it
\* pops the screen if it is not the entrypoint (the screens below stay, the
\* parent is the active menu) and is a no-op on the entrypoint (the stack
\* stays and the application keeps running).
C3_Backspace ==
    [][(MenuIdle /\ Apply(action_backspace_input(State))) =>
          /\ UNCHANGED <<on, value, selected, ancestors, modal, pending, command, app>>
          /\ IF CurInput /= ""
             THEN /\ \E c \in Keyboard(CurMenu) :
                        stack'[Len(stack)].cur_input \o c = CurInput
                  /\ stack' = [stack EXCEPT ![Len(stack)].cur_input =
                                                stack'[Len(stack)].cur_input]
             ELSE IF ~CurScreen.is_entrypoint
             THEN /\ Len(stack') = Len(stack) - 1
                  /\ \A i \in 1..Len(stack') :
                        /\ stack'[i].menu = stack[i].menu
                        /\ stack'[i].is_entrypoint = stack[i].is_entrypoint
                        /\ stack'[i].edit_mode = stack[i].edit_mode
             ELSE /\ stack' = stack
                  /\ ~app'.exited]_vars

\* backspace on the empty input of the sub-menu "D1" popped its screen:
\* the entrypoint screen is the active one again
C3_Witness ==
    /\ ev.op = "backspace" /\ Len(stack) = 1 /\ CurMenu = "D0"
    /\ ancestors["D1"] /= <<>> /\ CurInput = ""

----------------------------------------------------------------------------
(* Properties of the dispatch of an argument *)

\* the argument state after the step, as a state record
StateAfter == [State EXCEPT !.on = on', !.value = value', !.selected = selected']

\* the step is the dispatch, by a key or by tab on the active menu screen,
\* of the ChoiceArgument or ValueArgument a
DispatchOf(a) ==
    /\ MenuIdle
    /\ ev'.op \in {"key", "tab"}
    /\ ~IsNone(ev'.dispatched)
    /\ Declared(CurMenu, ev'.dispatched.v[1]) = [kind |-> "argument", id |-> a]

\* the step presented the input collaborator of a and left a as it was
Presented(a) ==
    /\ modal'.kind = ArgDef(a).type /\ modal'.arg = a
    /\ pending'.kind = "argument"
    /\ UNCHANGED <<on, value, selected>>

\* the step cleared a (selected / value is None, cur_input is "") without
\* presenting anything
Cleared(a) ==
    /\ modal'.kind = "none"
    /\ IF ArgDef(a).type = "choice"
       THEN IsNone(selected'[a]) ELSE IsNone(value'[a])
    /\ stack'[Len(stack)].cur_input = ""

\* C4: dispatching a ChoiceArgument or ValueArgument from a menu screen:
\* when the argument is enabled and the screen is not in edit mode, the
\* argument is disabled (cleared) without presenting the input
\* collaborator; when it is disabled, or the screen is in edit mode, the
\* collaborator is presented (the dispatch itself disables nothing) and the
\* collaborator's result is what the argument holds once it is dismissed.
C4_DispatchToggles ==
    [][/\ \A a \in ChoiceIds \cup ValueIds :
             DispatchOf(a) =>
                 IF enabled(State, a) /\ ~CurScreen.edit_mode
                 THEN Cleared(a)
                 ELSE Presented(a)
       /\ (pending.kind = "argument" /\ modal'.kind = "none") =>
             \/ ev'.op = "cancel" /\ ~enabled(StateAfter, modal.arg)
             \/ ev'.op = "submit" /\ enabled(StateAfter, modal.arg)]_vars

----------------------------------------------------------------------------
(* Properties of CommandTemplateResolver.resolve *)

\* the command whose dispatch the last handler started or resumed
DispatchedCommand == Declared(CurMenu, ev.dispatched.v[1]).id

\* the tokens of a rendering: a string is one token, a list is its tokens
Tokens(rendering) == IF rendering.tag = "str" THEN <<rendering.v[1]>> ELSE rendering.v

\* the concatenation of f[1], ..., f[n]
RECURSIVE Concat(_, _)
Concat(f, n) == IF n = 0 THEN <<>> ELSE Concat(f, n - 1) \o f[n]

\* the tokens one element of a template stands for
PartTokens(part) ==
    CASE part.kind = "str" -> <<part.s>>
      [] part.kind = "argument" -> Tokens(render_template(State, part.arg))
      [] part.kind = "menu_arguments" ->
            LET arguments == resolve_arguments(State, part, CurMenu) IN
            Concat([i \in 1..Len(arguments) |->
                       IF enabled(State, arguments[i].val)
                       THEN Tokens(render_template(State, arguments[i].val))
                       ELSE <<>>],
                   Len(arguments))

ExpectedCommand(c) ==
    LET template == CommandDef(c).template IN
    Concat([i \in 1..Len(template) |-> PartTokens(template[i])], Len(template))

C5_WitnessDisabled ==
    /\ ev.outcome = "resolved" /\ CurMenu = "F"
    /\ command = ListV(<<"mock_app", "--flag">>)
    /\ ~enabled(State, "fValue") /\ ~enabled(State, "fChoice")

\* the arguments embedded directly in the template of c, in template order
EmbeddedArguments(c) ==
    LET parts == SelectSeq(CommandDef(c).template, LAMBDA part : part.kind = "argument")
    IN  [i \in 1..Len(parts) |-> parts[i].arg]

\* the step runs the resolver for command c: it is the dispatch of c from
\* the active menu screen, or the dismissal of the input screen that a
\* dispatch of c awaits
ResolverRuns(c) ==
    /\ ~IsNone(ev'.dispatched)
    /\ Declared(CurMenu, ev'.dispatched.v[1]) = [kind |-> "command", id |-> c]
    /\ \/ MenuIdle /\ ev'.op \in {"key", "tab"}
       \/ /\ pending.kind = "command" /\ ev'.op \in {"submit", "cancel"}
          /\ ~(modal'.kind = modal.kind /\ modal'.arg = modal.arg)

\* the resolver handed argument a to the callback in this step: a flag is
\* toggled; for any other argument its input screen is presented, with the
\* argument left as it is, whether enabled or not
PromptedInStep(c, a) ==
    IF ArgDef(a).type = "flag"
    THEN on'[a] = ~on[a]
    ELSE /\ modal'.kind = ArgDef(a).type /\ modal'.arg = a
         /\ pending'.kind = "command" /\ pending'.cmd = c
         /\ ev'.outcome = ""
         /\ IF ArgDef(a).type = "choice"
            THEN selected'[a] = selected[a] ELSE value'[a] = value[a]

\* resolution aborted in this step: no command is produced, nothing is run
\* or shown, the application keeps running and the menu screen is still
\* the active screen
AbortedInStep ==
    /\ ev'.outcome = "aborted"
    /\ IsNone(command')
    /\ app' = app /\ ~app'.exited
    /\ modal'.kind = "none" /\ pending'.kind = "none"
    /\ stack' = [stack EXCEPT ![Len(stack)].cur_input = ""]

\* C6: a dispatch of a command hands the arguments embedded in its
\* template to the argument-processing callback in edit mode, in template
\* order, each whatever its enabled state before (an enabled argument gets
\* its input screen again, it is not toggled off); resolution goes on past
\* an argument exactly if it is enabled after its prompt, and otherwise
\* (the user cancelled) there is no result: no command is produced or
\* executed and the menu screen stays the active screen.
C6_EmbeddedArgumentsPrompted ==
    [][\A c \in CommandIds :
          ResolverRuns(c) =>
             LET embedded == EmbeddedArguments(c)
                 before == IF pending.kind = "command" THEN Len(ev.prompted) ELSE 0
                 after == Len(ev'.prompted)
             IN  /\ after \in before..Len(embedded)
                 /\ ev'.prompted = SubSeq(embedded, 1, after)
                 /\ \A i \in (before + 1)..after : PromptedInStep(c, embedded[i])
                 /\ \A i \in 1..(after - 1) : enabled(StateAfter, embedded[i])
                 /\ IF after > 0 /\ ~enabled(StateAfter, embedded[after])
                    THEN \/ AbortedInStep
                         \/ after > before /\ pending'.kind = "command"
                    ELSE \/ after = Len(embedded) /\ ev'.outcome = "resolved"
                         \/ after > before /\ pending'.kind = "command"]_vars

\* the command "r" of menu "M" is dispatched while its first embedded
\* argument is enabled already (an earlier dispatch was cancelled at the
\* second one): the input screen of the first argument is presented again
C6_Witness ==
    /\ CurMenu = "M" /\ ev.dispatched = StrV("r") /\ ev.op = "key"
    /\ pending.kind = "command" /\ modal.arg = "rTargets"
    /\ enabled(State, "rTargets")
    /\ IsNone(command)

\* a dispatch of "r" was cancelled at its second embedded argument
C6_WitnessAborted ==
    /\ CurMenu = "M" /\ ev.dispatched = StrV("r") /\ ev.op = "cancel"
    /\ ev.outcome = "aborted" /\ ev.prompted = <<"rTargets", "rMode">>
    /\ IsNone(command) /\ MenuIdle

----------------------------------------------------------------------------
(* Properties of the scope of a MenuArguments selector *)

\* the shortcuts a selector lets through: in include (or include is "*")
\* and not in exclude
Selects(part, shortcut) ==
    /\ part.include = StrV("*") \/ shortcut \in Range(part.include.v)
    /\ IsNone(part.exclude) \/ shortcut \notin Range(part.exclude.v)

\* the argument shortcuts of every menu on the navigation stack
StackShortcuts == UNION {Keys(MenuDef(stack[i].menu).arguments) : i \in 1..Len(stack)}

\* C7: when a command dispatched from a menu screen at any depth has
\* resolved, each of its MenuArguments selectors with scope "all" stood for
\* the selected arguments of every menu on the navigation stack (every
\* ancestor, not only the immediate parent, and the current menu), and
\* each selector with scope "this" for those of the current menu only.
C7_ScopeAllReachesEveryAncestor ==
    ev.outcome = "resolved" =>
        LET template == CommandDef(DispatchedCommand).template IN
        \A i \in 1..Len(template) :
            template[i].kind = "menu_arguments" =>
                Keys(resolve_arguments(State, template[i], CurMenu))
                  = {shortcut \in (IF template[i].scope = "all"
                                   THEN StackShortcuts
                                   ELSE Keys(MenuDef(CurMenu).arguments)) :
                        Selects(template[i], shortcut)}

----------------------------------------------------------------------------
(* Properties of the enabled state of an argument *)

\* C9: in every reachable state a ChoiceArgument is enabled if and only if
\* its selected sequence is not empty (also after a multi-select
\* submission with no option checked), and the toggle decision of the
\* dispatch and the inclusion decision of the resolver agree on it.
C9_ChoiceEnabledIffSelected ==
    \A a \in ChoiceIds :
        /\ enabled(State, a) <=> selected[a].v /= <<>>
        /\ enabled(State, a) <=> ToggleOff(State, a, "toggle")

\* C10: in every reachable state a ValueArgument is enabled if and only if
\* its value is not empty (also after the submission of an empty string
\* for a single-value argument and of no accumulated value for a
\* multi-value argument).
C10_ValueEnabledIffValue ==
    \A a \in ValueIds : enabled(State, a) <=> Truthy(value[a])

----------------------------------------------------------------------------
(* MenuArguments.resolve_arguments on its own: a second specification,     *)
(* whose initial states draw the selector and the two dictionaries and     *)
(* whose one action applies the function.                                  *)

\* the shortcuts the dictionaries and the lists are drawn from
ShortcutPool == {"-a", "-b", "-c"}

\* the sequences of at most n shortcuts, and those that repeat none
ShortcutLists(n) == UNION {[1..m -> ShortcutPool] : m \in 0..n}
DistinctLists(n) ==
    {l \in ShortcutLists(n) : \A i, j \in 1..Len(l) : i /= j => l[i] /= l[j]}

\* the dictionaries of at most MaxArguments arguments; the argument under
\* a shortcut is named after the dictionary it belongs to
Dicts(owner) ==
    {[i \in 1..Len(l) |-> Entry(l[i], owner)] : l \in DistinctLists(MaxArguments)}

\* the selectors: include is "*" or a list, exclude is None or a list
Selectors ==
    {MenuArguments(include, exclude, scope) :
        include \in {StrV("*")} \cup {ListV(l) : l \in ShortcutLists(MaxInclude)},
        exclude \in {NoneV} \cup {ListV(l) : l \in ShortcutLists(1)},
        scope \in {"this", "all"}}

\* the application on the fixture menu, before any key
NavigationAtRest ==
    /\ stack = <<MenuScreen("F", TRUE)>>
    /\ on = [a \in FlagIds |-> FALSE]
    /\ value = [a \in ValueIds |-> InitialValue(a)]
    /\ selected = [a \in ChoiceIds |-> NoneV]
    /\ ancestors = [m \in MenuIds |-> <<>>]
    /\ modal = NoModal
    /\ pending = NoPending
    /\ command = NoneV
    /\ app = [dry_run |-> FALSE, inplace |-> FALSE, exited |-> FALSE,
              result |-> NoneV, message |-> "", runner |-> NoRun]
    /\ ev = Event("init")
    /\ pressed = NoKey /\ rendered = NoRender /\ cmd_runner = NoRunner

InitResolve ==
    /\ NavigationAtRest
    /\ hist = NoHistory /\ sugg = NoSuggestions /\ built = NotBuilt
    /\ \E part \in Selectors, ancestors_arguments \in Dicts("ancestor"),
          arguments \in Dicts("menu") :
          call = [part |-> part, ancestors_arguments |-> ancestors_arguments,
                  arguments |-> arguments, returned |-> FALSE, result |-> <<>>]

\* part.resolve_arguments(menu), with menu.arguments = call.arguments and
\* menu._ancestors_arguments = call.ancestors_arguments
ResolveArguments ==
    /\ ~call.returned
    /\ call' = [call EXCEPT
                   !.returned = TRUE,
                   !.result = ResolveDicts(call.part, call.ancestors_arguments,
                                           call.arguments)]
    /\ UNCHANGED <<nav_vars, hist, sugg, built, pressed, rendered, cmd_runner>>

NextResolve == ResolveArguments

SpecResolve == InitResolve /\ [][NextResolve]_vars

\* the dictionary of the ancestors as far as the scope of the call lets it in
InScope == IF call.part.scope = "all" THEN call.ancestors_arguments ELSE <<>>

\* the entries of dictionary d under the shortcuts of list l, in the order of l
EntriesOf(d, l) == [i \in 1..Len(l) |-> Entry(l[i], Lookup(d, l[i]))]

\* the shortcuts of list l the selector lets through, in the order of l
Selected(l) == SelectSeq(l, LAMBDA shortcut : Selects(call.part, shortcut))

\* C8 as stated: the shortcuts returned are those of the menu (and,
\* for scope "all", of its ancestors) that are in include (or include is
\* "*") and not in exclude; the ancestors' entries come first and the
\* menu's own entries after, each in insertion order; a shortcut of both
\* is returned with the menu's own argument.
C8_AncestorsFirstOwnAfter ==
    call.returned =>
        LET inherited == SelectSeq(KeyList(InScope),
                                   LAMBDA shortcut : shortcut \notin Keys(call.arguments))
        IN  call.result = EntriesOf(InScope, Selected(inherited))
                            \o EntriesOf(call.arguments, Selected(KeyList(call.arguments)))

\* C8 (amended): resolve_arguments returns exactly the shortcuts of the
\* menu's arguments (and, for scope "all", of its ancestors_arguments) that
\* are in include (or include is "*") and not in a non-empty exclude.  The
\* ancestors' shortcuts come first, in the ancestors' insertion order, and
\* the shortcuts of the menu alone after, in the menu's insertion order,
\* whatever the order of include; a shortcut of both keeps the place it has
\* among the ancestors' and is returned with the menu's own argument.
C8_ResolveArguments ==
    call.returned =>
        LET own_only == SelectSeq(KeyList(call.arguments),
                                  LAMBDA shortcut : shortcut \notin Keys(InScope))
            order == Selected(KeyList(InScope) \o own_only)
        IN  call.result =
               [i \in 1..Len(order) |->
                   IF order[i] \in Keys(call.arguments)
                   THEN Entry(order[i], Lookup(call.arguments, order[i]))
                   ELSE Entry(order[i], Lookup(InScope, order[i]))]

\* a call with scope "all" on a menu that redefines the first shortcut of
\* its ancestors after a shortcut of its own: the redefined shortcut comes
\* first with the menu's argument, before an entry of the ancestors
C8_Witness ==
    /\ call.returned
    /\ call.part = MenuArguments(ListV(<<"-c", "-a">>), NoneV, "all")
    /\ call.ancestors_arguments = <<Entry("-a", "ancestor"), Entry("-b", "ancestor")>>
    /\ call.arguments = <<Entry("-c", "menu"), Entry("-a", "menu")>>
    /\ call.result = <<Entry("-a", "menu"), Entry("-c", "menu")>>

----------------------------------------------------------------------------
(* The construction of a ChoiceArgument from a definition that gives       *)
(* `selected`, and the navigation that follows: a third specification, on  *)
(* menu "M".                                                               *)

\* sanitize_selected_value that leaves a string as it is
sanitize_selected_value_Identity(selected_value) == selected_value

\* ChoiceArgument.sanitize_selected_value, the validator run at construction
sanitize_selected_value(selected_value) ==
    IF selected_value.tag = "str" THEN ListV(selected_value.v) ELSE selected_value

\* a value that is none of the choices of any argument
OutsideChoice == "z"

\* the values a definition may give to `selected` of argument a: None, a
\* string or a list of strings, of its choices or not
SourceSelected(a) ==
    LET first == ArgDef(a).choices[1] IN
    {NoneV, StrV(first), StrV(OutsideChoice), ListV(<<first>>),
     ListV(<<first, OutsideChoice>>)}

\* the construction of ChoiceArgument a with `selected` given: the fields
\* are validated by type and the validator normalises a string; no step
\* compares selected with choices, so nothing is rejected
construct_ChoiceArgument(a, selected_value) ==
    [rejected |-> FALSE, selected |-> sanitize_selected_value(selected_value)]

InitSelected ==
    /\ stack = <<MenuScreen("M", TRUE)>>
    /\ on = [a \in FlagIds |-> FALSE]
    /\ value = [a \in ValueIds |-> InitialValue(a)]
    /\ \E a \in {"mSel", "rMode"} : \E selected_value \in SourceSelected(a) :
          LET constructed == construct_ChoiceArgument(a, selected_value) IN
          /\ ~constructed.rejected
          /\ selected = [b \in ChoiceIds |->
                            IF b = a THEN constructed.selected ELSE NoneV]
    /\ ancestors = [m \in MenuIds |-> <<>>]
    /\ modal = NoModal
    /\ pending = NoPending
    /\ command = NoneV
    /\ app = [dry_run |-> FALSE, inplace |-> FALSE, exited |-> FALSE,
              result |-> NoneV, message |-> "", runner |-> NoRun]
    /\ ev = Event("init")
    /\ call = NoCall /\ hist = NoHistory /\ sugg = NoSuggestions /\ built = NotBuilt
    /\ pressed = NoKey /\ rendered = NoRender /\ cmd_runner = NoRunner

\* the application is not in in-place mode: the results screen never shows
NextSelected ==
    \/ Key
    \/ Tab
    \/ Backspace
    \/ ChangeMode
    \/ ShowResults
    \/ InputSubmitted
    \/ TagDeleted
    \/ OptionSelected
    \/ SelectionSubmitted
    \/ Cancel

SpecSelected == InitSelected /\ [][NextSelected]_vars

\* C11: for every ChoiceArgument, selected is a subset of choices at all
\* times: no definition whose selected holds a value outside choices is
\* constructed, and no dispatch, collaborator result or cancellation makes
\* selected hold a value outside choices.
C11_SelectedWithinChoices ==
    \A a \in ChoiceIds : Range(selected[a].v) \subseteq Range(ArgDef(a).choices)

----------------------------------------------------------------------------
(* The construction of a Menu from a definition and of the MenuScreen that *)
(* shows it: a specification whose initial states draw the three maps.     *)

\* the definitions: up to MaxArguments arguments, menus and commands
MenuSources ==
    {Menu(arguments, menus, commands) :
        arguments \in Dicts("argument"), menus \in Dicts("menu"),
        commands \in Dicts("command")}

\* the construction of a Menu: the three maps are validated one by one and
\* the validator set_default_fields propagates the configuration; no step
\* compares the keys of one map with those of another, so nothing is
\* rejected
construct_Menu(source) == [rejected |-> FALSE, menu |-> source]

InitMenu ==
    /\ NavigationAtRest
    /\ call = NoCall /\ hist = NoHistory /\ sugg = NoSuggestions
    /\ \E source \in MenuSources :
          built = [source |-> source, result |-> <<>>]

\* Menu(**source), or Menu.model_validate(source)
ConstructMenu ==
    /\ built.result = <<>>
    /\ built' = [built EXCEPT !.result =
                    [stage |-> "constructed",
                     rejected |-> construct_Menu(built.source).rejected,
                     menu |-> construct_Menu(built.source).menu,
                     candidates |-> <<>>]]
    /\ UNCHANGED <<nav_vars, call, hist, sugg, pressed, rendered, cmd_runner>>

\* MenuScreen(menu) on the constructed menu
MountMenuScreen ==
    /\ built.result /= <<>>
    /\ built.result.stage = "constructed" /\ ~built.result.rejected
    /\ built' = [built EXCEPT !.result.stage = "mounted",
                              !.result.candidates =
                                  MenuScreenCandidates(built.result.menu)]
    /\ UNCHANGED <<nav_vars, call, hist, sugg, pressed, rendered, cmd_runner>>

NextMenu == ConstructMenu \/ MountMenuScreen

SpecMenu == InitMenu /\ [][NextMenu]_vars

\* C12: in every menu that is constructed no shortcut occurs in more than
\* one of the maps arguments, menus and commands (a definition with such a
\* shortcut is rejected), so the candidates of its screen have one entry
\* per declared item and no item replaces another.
C12_NoShortcutInTwoMaps ==
    (built.result /= <<>> /\ ~built.result.rejected) =>
        LET menu == built.result.menu IN
        /\ Keys(menu.arguments) \cap Keys(menu.menus) = {}
        /\ Keys(menu.arguments) \cap Keys(menu.commands) = {}
        /\ Keys(menu.menus) \cap Keys(menu.commands) = {}
        /\ built.result.stage = "mounted" =>
              Len(built.result.candidates)
                 = Len(menu.arguments) + Len(menu.menus) + Len(menu.commands)

----------------------------------------------------------------------------
(* History: History.values is a dict whose keys are the values added, in   *)
(* insertion order; it is the sequence of its keys here.  A specification  *)
(* of the calls of History.add on one History object.                      *)

\* the values handed to History.add
HistoryValues == {"", "a", "b", "c"}

\* History(values=values, max_size=max_size)
History(values, max_size) == [values |-> values, max_size |-> max_size]

\* History.add that leaves a value it holds already where it is
add_KeepsPlace(history, added) ==
    IF added = "" THEN history
    ELSE LET inserted == IF added \in Range(history.values)
                         THEN history.values
                         ELSE Append(history.values, added)
         IN  IF Len(inserted) > history.max_size
             THEN [history EXCEPT !.values = Tail(inserted)]
             ELSE [history EXCEPT !.values = inserted]

\* History.add that never evicts
add_NeverEvicts(history, added) ==
    IF added = "" THEN history
    ELSE [history EXCEPT !.values =
             Append(SelectSeq(history.values, LAMBDA k : k /= added), added)]

\* History.add
add(history, added) ==
    IF added = "" THEN history
    ELSE LET deleted == SelectSeq(history.values, LAMBDA k : k /= added)
             inserted == Append(deleted, added)
         IN  IF Len(inserted) > history.max_size
             THEN [history EXCEPT !.values = Tail(inserted)]
             ELSE [history EXCEPT !.values = inserted]

\* list(arg_history)[::-1], the order in which
\* ValueArgumentInputScreen._init_suggestions lists a history
Listing(values) == [i \in 1..Len(values) |-> values[Len(values) + 1 - i]]

InitHistoryAdd ==
    /\ NavigationAtRest
    /\ call = NoCall /\ sugg = NoSuggestions /\ built = NotBuilt
    /\ \E max_size \in 0..MaxHistorySize :
          hist = [NoHistory EXCEPT !.max_size = max_size]

\* history.add(added) on History(max_size=hist.max_size)
HistoryAdd ==
    /\ Len(hist.log) < MaxAdds
    /\ \E added \in HistoryValues :
          hist' = [hist EXCEPT
                      !.values = add(History(hist.values, hist.max_size), added).values,
                      !.log = Append(@, added)]
    /\ UNCHANGED <<nav_vars, call, sugg, built, pressed, rendered, cmd_runner>>

NextHistoryAdd == HistoryAdd

SpecHistoryAdd == InitHistoryAdd /\ [][NextHistoryAdd]_vars

\* the place of the last add of a value in the log of the adds
LastAdd(log, v) == CHOOSE i \in 1..Len(log) : log[i] = v /\ \A j \in (i + 1)..Len(log) : log[j] /= v

\* the distinct non-empty values of the log, the most recently added
\* first, cut to the max_size most recent
MostRecentFirst(log, max_size) ==
    LET distinct == Range(log) \ {""}
        rank(v) == 1 + Cardinality({w \in distinct : LastAdd(log, w) > LastAdd(log, v)})
        kept == IF Cardinality(distinct) < max_size
                THEN Cardinality(distinct) ELSE max_size
    IN  [k \in 1..kept |-> CHOOSE v \in distinct : rank(v) = k]

----------------------------------------------------------------------------
(* The input sessions of the value arguments: ArgumentInput loads the      *)
(* history of its argument's name from the store when it is mounted, adds  *)
(* each submitted text, and writes the history back when it is unmounted.  *)
(* A password argument has no history.  The store (the shelf) maps an      *)
(* argument name to the keys of the dict stored for it.  In a session,     *)
(* log holds the text of the last submission and suggested the values      *)
(* that ValueArgumentInputScreen._init_suggestions read from the store.    *)

\* the value arguments that get an input session
SessionArguments ==
    { [name |-> "--out", multi |-> FALSE, password |-> FALSE],
      [name |-> "--tag", multi |-> TRUE,  password |-> FALSE],
      [name |-> "--key", multi |-> FALSE, password |-> TRUE],
      [name |-> "--pin", multi |-> TRUE,  password |-> TRUE] }

SessionNames == {argument.name : argument \in SessionArguments}

\* ArgumentInput.with_history that keeps a history for every argument
with_history_Always(argument) == TRUE

\* ArgumentInput.with_history
with_history(argument) == ~argument.password

\* the part of suggested_values that _init_suggestions loads from the
\* history file: none for a password argument
_init_suggestions(argument, store) ==
    IF ~argument.password THEN Listing(store[argument.name]) ELSE <<>>

\* the history file before the first session, and the History of
\* ArgumentInput.on_mount, whose max_size is the default
InitHistory ==
    /\ NavigationAtRest
    /\ call = NoCall /\ sugg = NoSuggestions /\ built = NotBuilt
    /\ hist = [NoHistory EXCEPT !.max_size = MaxHistorySize,
                                !.store = [name \in SessionNames |-> <<>>]]

\* ValueArgumentInputScreen.__init__ and ArgumentInput.on_mount
on_mount ==
    /\ hist.session = NoneV
    /\ \E argument \in SessionArguments :
          hist' = [hist EXCEPT
                      !.session = argument,
                      !.open = TRUE,
                      !.log = <<>>,
                      !.suggested = _init_suggestions(argument, hist.store),
                      !.values = IF with_history(argument)
                                 THEN History(hist.store[argument.name], hist.max_size).values
                                 ELSE <<>>]
    /\ UNCHANGED <<nav_vars, call, sugg, built, pressed, rendered, cmd_runner>>

\* ArgumentInput.on_input_submitted: the text is added to the history; a
\* single-valued input, and a multi-valued one submitted empty, post
\* Submitted, on which the input screen is dismissed
SessionInputSubmitted ==
    /\ hist.session /= NoneV /\ hist.open
    /\ \E text \in HistoryValues :
          hist' = [hist EXCEPT
                      !.values = IF text /= "" /\ with_history(hist.session)
                                 THEN add(History(hist.values, hist.max_size), text).values
                                 ELSE @,
                      !.log = <<text>>,
                      !.open = hist.session.multi /\ text /= ""]
    /\ UNCHANGED <<nav_vars, call, sugg, built, pressed, rendered, cmd_runner>>

\* ArgumentInput.action_cancel
SessionCancel ==
    /\ hist.session /= NoneV /\ hist.open
    /\ hist' = [hist EXCEPT !.open = FALSE]
    /\ UNCHANGED <<nav_vars, call, sugg, built, pressed, rendered, cmd_runner>>

\* ArgumentInput.on_unmount, once the input screen was dismissed
on_unmount ==
    /\ hist.session /= NoneV /\ ~hist.open
    /\ hist' = [hist EXCEPT
                   !.session = NoneV,
                   !.values = <<>>,
                   !.log = <<>>,
                   !.suggested = <<>>,
                   !.store = IF with_history(hist.session)
                             THEN [@ EXCEPT ![hist.session.name] = hist.values]
                             ELSE @]
    /\ UNCHANGED <<nav_vars, call, sugg, built, pressed, rendered, cmd_runner>>

NextHistory == on_mount \/ SessionInputSubmitted \/ SessionCancel \/ on_unmount

SpecHistory == InitHistory /\ [][NextHistory]_vars

\* at most max_size entries, none empty, none twice
WellFormedHistory(values, max_size) ==
    /\ Len(values) <= max_size
    /\ "" \notin Range(values)
    /\ \A i, j \in 1..Len(values) : values[i] = values[j] => i = j

\* C14: the history kept for an argument name, in the store and in the
\* session that has it loaded, never holds more than max_size entries,
\* never the empty string and never a value twice, and adding "" leaves
\* it unchanged.
C14_HistoryWellFormed ==
    /\ \A name \in SessionNames : WellFormedHistory(hist.store[name], hist.max_size)
    /\ WellFormedHistory(hist.values, hist.max_size)
    /\ add(History(hist.values, hist.max_size), "") = History(hist.values, hist.max_size)
    /\ \A name \in SessionNames :
          add(History(hist.store[name], hist.max_size), "").values = hist.store[name]

\* a later session of an argument whose stored history is full has added
\* one more value, while the password argument's name has no history
C14_Witness ==
    /\ hist.session /= NoneV /\ hist.session.name = "--tag"
    /\ Len(hist.store["--tag"]) = hist.max_size
    /\ Len(hist.values) = hist.max_size
    /\ hist.values /= hist.store["--tag"]
    /\ hist.values[Len(hist.values)] \notin Range(hist.store["--tag"])
    /\ hist.store["--key"] = <<>>

----------------------------------------------------------------------------
(* SuggestionsCommand: the reads of values on one object.  sugg holds the  *)
(* object (cache, suggestions = _suggestions), the number of reads and of  *)
(* executions of the shell command, what the last read did, and whether a  *)
(* run has succeeded yet and what the first successful run produced.       *)

\* what subprocess.run(command, capture_output=True, shell=True) can give
Completed ==
    [stdout : {"", "a\n", " a \n\nb\n", "  \n"}, stderr : {"", "e"}, returncode : {0, 1}]

\* s.split("\n")
RECURSIVE split(_)
split(s) ==
    IF \E i \in 1..Len(s) : SubSeq(s, i, i) = "\n"
    THEN LET i == CHOOSE k \in 1..Len(s) :
                     /\ SubSeq(s, k, k) = "\n"
                     /\ \A j \in 1..(k - 1) : SubSeq(s, j, j) /= "\n"
         IN  <<SubSeq(s, 1, i - 1)>> \o split(SubSeq(s, i + 1, Len(s)))
    ELSE <<s>>

\* line.strip(), for the white space of Completed
RECURSIVE strip(_)
strip(line) ==
    IF Len(line) > 0 /\ SubSeq(line, 1, 1) = " "
    THEN strip(SubSeq(line, 2, Len(line)))
    ELSE IF Len(line) > 0 /\ SubSeq(line, Len(line), Len(line)) = " "
         THEN strip(SubSeq(line, 1, Len(line) - 1))
         ELSE line

RECURSIVE StrippedLines(_)
\* [line.strip() for line in lines if line.strip()]
StrippedLines(lines) ==
    IF lines = <<>> THEN <<>>
    ELSE IF strip(Head(lines)) /= ""
         THEN <<strip(Head(lines))>> \o StrippedLines(Tail(lines))
         ELSE StrippedLines(Tail(lines))

\* SuggestionsCommand.values that raises on a non-zero exit code
values_RaisesOnReturncode(self, result) ==
    IF ~self.cache \/ self.suggestions = <<>>
    THEN IF result.returncode /= 0
         THEN [executed |-> TRUE, raised |-> TRUE, returned |-> <<>>,
               suggestions |-> self.suggestions]
         ELSE LET lines == StrippedLines(split(result.stdout))
              IN  [executed |-> TRUE, raised |-> FALSE, returned |-> lines,
                   suggestions |-> lines]
    ELSE [executed |-> FALSE, raised |-> FALSE, returned |-> self.suggestions,
          suggestions |-> self.suggestions]

\* SuggestionsCommand.values, result being what subprocess.run gives if it
\* is called
SuggestionsCommand_values(self, result) ==
    IF ~self.cache \/ self.suggestions = <<>>
    THEN IF result.stderr /= ""
         THEN [executed |-> TRUE, raised |-> TRUE, returned |-> <<>>,
               suggestions |-> self.suggestions]
         ELSE LET lines == StrippedLines(split(result.stdout))
              IN  [executed |-> TRUE, raised |-> FALSE, returned |-> lines,
                   suggestions |-> lines]
    ELSE [executed |-> FALSE, raised |-> FALSE, returned |-> self.suggestions,
          suggestions |-> self.suggestions]

\* SuggestionsCommand(command=..., cache=cache)
InitSuggestions ==
    /\ NavigationAtRest
    /\ call = NoCall /\ hist = NoHistory /\ built = NotBuilt
    /\ \E cache \in BOOLEAN : sugg = [NoSuggestions EXCEPT !.cache = cache]

\* one read of self.values
ReadValues ==
    /\ sugg.reads < MaxReads
    /\ \E result \in Completed :
          LET read == SuggestionsCommand_values(sugg, result)
              succeeded == read.executed /\ ~read.raised
          IN  sugg' = [sugg EXCEPT
                  !.suggestions = read.suggestions,
                  !.reads = @ + 1,
                  !.runs = IF read.executed THEN @ + 1 ELSE @,
                  !.populated = @ \/ succeeded,
                  !.first = IF ~sugg.populated /\ succeeded THEN read.returned ELSE @,
                  !.last = [executed |-> read.executed, raised |-> read.raised,
                            returned |-> read.returned,
                            stdout |-> IF read.executed THEN result.stdout ELSE "",
                            stderr |-> IF read.executed THEN result.stderr ELSE "",
                            returncode |-> IF read.executed THEN result.returncode ELSE 0]]
    /\ UNCHANGED <<nav_vars, call, hist, built, pressed, rendered, cmd_runner>>

NextSuggestions == ReadValues

SpecSuggestions == InitSuggestions /\ [][NextSuggestions]_vars

\* C15: with caching enabled a read executes the command exactly while no
\* run has succeeded yet, and once a run has succeeded every later read
\* returns that first result, an empty list included; with caching
\* disabled every read executes the command.
C15_CacheMemoizesFirstSuccess ==
    [][sugg'.reads = sugg.reads + 1 =>
          IF sugg.cache
          THEN /\ sugg'.last.executed <=> ~sugg.populated
               /\ sugg.populated =>
                     ~sugg'.last.raised /\ sugg'.last.returned = sugg.first
          ELSE sugg'.last.executed]_vars

\* C16: a read whose command writes to stderr raises, whatever the exit
\* code and stdout; the command was executed once by that read and the
\* memoized suggestions are as they were before the read.
C16_StderrRaises ==
    [][(sugg'.reads = sugg.reads + 1 /\ sugg'.last.executed /\ sugg'.last.stderr /= "")
          => /\ sugg'.last.raised
             /\ sugg'.runs = sugg.runs + 1
             /\ sugg'.suggestions = sugg.suggestions]_vars

\* a read raised although the command exited with 0 and wrote lines to
\* stdout, and the suggestions of an earlier run are still there
C16_Witness ==
    /\ sugg.last.raised
    /\ sugg.last.returncode = 0
    /\ StrippedLines(split(sugg.last.stdout)) = <<"a", "b">>
    /\ sugg.suggestions = <<"a">>
    /\ sugg.runs = 2

----------------------------------------------------------------------------
(* Configuration propagation: Menu.model_validate on a definition that is  *)
(* a chain of menus, menus[1] the root and menus[i + 1] the sub-menu of    *)
(* menus[i], each with one argument (a menu argument or a dynamic argument *)
(* of a command).  Every model carries fields_set, its model_fields_set:   *)
(* the fields its source gave, and every field assigned since.  Pydantic   *)
(* validates the innermost menu first, so the set_default_fields           *)
(* validators run from the deepest menu to the root, and each one calls    *)
(* set_default_fields down its sub-menus again.                            *)

\* constants.DEFAULT_ARGUMENT_FIELDS
DEFAULT_ARGUMENT_FIELDS == [separator |-> "space", multi_style |-> ","]

StyleFields == {"separator", "multi_style"}

\* NamedArgumentsStyle(**given)
NamedArgumentsStyle(given) ==
    [separator |-> IF "separator" \in DOMAIN given
                   THEN given.separator ELSE DEFAULT_ARGUMENT_FIELDS.separator,
     multi_style |-> IF "multi_style" \in DOMAIN given
                     THEN given.multi_style ELSE DEFAULT_ARGUMENT_FIELDS.multi_style,
     fields_set |-> DOMAIN given]

\* MenuConfiguration(**given)
MenuConfiguration(given) ==
    [named_arguments_style |-> IF "named_arguments_style" \in DOMAIN given
                               THEN given.named_arguments_style
                               ELSE NamedArgumentsStyle(<<>>),
     sort_menus |-> IF "sort_menus" \in DOMAIN given THEN given.sort_menus ELSE TRUE,
     fields_set |-> DOMAIN given]

\* the configuration tables of the definitions: none, one that sets only
\* sort_menus, and two that set fields of the named-argument style
ConfigurationSources ==
    { <<>>,
      [configuration |-> MenuConfiguration([sort_menus |-> FALSE])],
      [configuration |-> MenuConfiguration(
          [named_arguments_style |-> NamedArgumentsStyle([separator |-> "equal"])])],
      [configuration |-> MenuConfiguration(
          [named_arguments_style |->
              NamedArgumentsStyle([separator |-> "space", multi_style |-> "repeat"])])] }

\* ValueArgument(name=..., **given) in menu.arguments or in the template of
\* a command of menu.commands
NamedArgumentSource(place, given) ==
    [place |-> place,
     model_fields |-> StyleFields,
     fields_set |-> DOMAIN given,
     separator |-> IF "separator" \in DOMAIN given
                   THEN given.separator ELSE DEFAULT_ARGUMENT_FIELDS.separator,
     multi_style |-> IF "multi_style" \in DOMAIN given
                     THEN given.multi_style ELSE DEFAULT_ARGUMENT_FIELDS.multi_style]

\* FlagArgument(flag=...), which has no field of the style
FlagArgumentSource ==
    [place |-> "arguments", model_fields |-> {}, fields_set |-> {},
     separator |-> "", multi_style |-> ""]

ArgumentSources ==
    { NamedArgumentSource("arguments", <<>>),
      NamedArgumentSource("arguments", [separator |-> "space"]),
      NamedArgumentSource("commands", <<>>),
      NamedArgumentSource("commands", [multi_style |-> ";"]),
      FlagArgumentSource }

\* Menu(name=..., **given) with one argument, before its validator runs
MenuSource(given, argument) ==
    [configuration |-> IF "configuration" \in DOMAIN given
                       THEN given.configuration ELSE MenuConfiguration(<<>>),
     fields_set |-> DOMAIN given,
     argument |-> argument]

MenuLevelSources ==
    {MenuSource(given, argument) : given \in ConfigurationSources, argument \in ArgumentSources}

\* set_default_arg_value that does not look at the argument's fields set
set_default_arg_value_Overwrites(arg, configuration) ==
    LET style == configuration.named_arguments_style
        taken == {field_name \in style.fields_set : field_name \in arg.model_fields}
    IN  [arg EXCEPT
            !.separator = IF "separator" \in taken THEN style.separator ELSE @,
            !.multi_style = IF "multi_style" \in taken THEN style.multi_style ELSE @,
            !.fields_set = @ \cup taken]

\* set_default_arg_value: setattr puts the field in the argument's
\* fields set
set_default_arg_value(arg, configuration) ==
    LET style == configuration.named_arguments_style
        taken == {field_name \in style.fields_set :
                     field_name \in arg.model_fields /\ field_name \notin arg.fields_set}
    IN  [arg EXCEPT
            !.separator = IF "separator" \in taken THEN style.separator ELSE @,
            !.multi_style = IF "multi_style" \in taken THEN style.multi_style ELSE @,
            !.fields_set = @ \cup taken]

\* the sub-menu step of set_default_fields that takes from the parent
\* every configuration field the sub-menu did not set itself
inherit_configuration_PerField(menu, configuration) ==
    LET own == menu.configuration
        own_style == own.named_arguments_style
        style == configuration.named_arguments_style
    IN  [menu EXCEPT
            !.configuration =
                [named_arguments_style |->
                    [separator |-> IF "separator" \in own_style.fields_set
                                   THEN own_style.separator ELSE style.separator,
                     multi_style |-> IF "multi_style" \in own_style.fields_set
                                     THEN own_style.multi_style ELSE style.multi_style,
                     fields_set |-> own_style.fields_set \cup style.fields_set],
                 sort_menus |-> IF "sort_menus" \in own.fields_set
                                THEN own.sort_menus ELSE configuration.sort_menus,
                 fields_set |-> own.fields_set \cup configuration.fields_set],
            !.fields_set = @ \cup {"configuration"}]

\* the sub-menu step of set_default_fields: the assignment puts
\* "configuration" in the sub-menu's fields set
inherit_configuration(menu, configuration) ==
    IF "configuration" \notin menu.fields_set
    THEN [menu EXCEPT !.configuration = configuration,
                      !.fields_set = @ \cup {"configuration"}]
    ELSE menu

RECURSIVE set_default_fields(_, _)
\* menus[i].set_default_fields()
set_default_fields(menus, i) ==
    LET self == menus[i]
        defaulted == [menus EXCEPT
                         ![i].argument = set_default_arg_value(@, self.configuration)]
    IN  IF i < Len(menus)
        THEN set_default_fields(
                 [defaulted EXCEPT
                     ![i + 1] = inherit_configuration(@, self.configuration)],
                 i + 1)
        ELSE defaulted

\* Menu.model_validate(model) has built the models of the definition and
\* has yet to run the validators, the deepest menu's first
InitConfiguration ==
    /\ NavigationAtRest
    /\ call = NoCall /\ hist = NoHistory /\ sugg = NoSuggestions
    /\ \E depth \in 1..MaxDepth :
          \E source \in [1..depth -> MenuLevelSources] :
             built = [source |-> source,
                      result |-> [menus |-> source, pending |-> depth]]

\* the validator of the deepest menu that has not been validated yet
ValidateMenu ==
    /\ built.result.pending > 0
    /\ built' = [built EXCEPT
                    !.result.menus = set_default_fields(@, built.result.pending),
                    !.result.pending = @ - 1]
    /\ UNCHANGED <<nav_vars, call, hist, sugg, pressed, rendered, cmd_runner>>

NextConfiguration == ValidateMenu

SpecConfiguration == InitConfiguration /\ [][NextConfiguration]_vars

\* the definition is constructed
Constructed == built.result.pending = 0

\* the menus of the definition
Levels == 1..Len(built.source)

\* the source of menu i declares a configuration
Declares(i) == "configuration" \in built.source[i].fields_set

RECURSIVE NearestConfiguration(_)
\* the configuration of the nearest menu enclosing the argument of menu
\* i: its own if it declares one (or is the root), else its parent's
NearestConfiguration(i) ==
    IF i = 1 \/ Declares(i)
    THEN built.source[i].configuration
    ELSE NearestConfiguration(i - 1)

\* the configurable fields of the argument of menu i that the source
\* did not set
UnsetFields(i) ==
    built.source[i].argument.model_fields \ built.source[i].argument.fields_set

\* field of a style or of an argument
FieldOf(model, field_name) ==
    IF field_name = "separator" THEN model.separator ELSE model.multi_style

\* C17: after construction every configurable field of an argument that
\* the source did not set equals that field in the configuration of the
\* nearest enclosing menu, a menu that declares no configuration taking
\* its parent's, at any depth.
C17_ArgumentsTakeNearestConfiguration ==
    Constructed =>
        \A i \in Levels : \A field_name \in UnsetFields(i) :
            FieldOf(built.result.menus[i].argument, field_name)
                = FieldOf(NearestConfiguration(i).named_arguments_style, field_name)

\* C18: propagation never overwrites a field that is set: in every
\* validator pass, for every argument (of a menu or of a command) at any
\* depth, each field set by the source or by an earlier pass keeps its
\* value, so an explicit value is final and a value taken from a nearer
\* menu is not replaced by a farther ancestor's; and a sub-menu whose
\* configuration is set keeps it.
C18_SetFieldsKept ==
    [][\A i \in Levels :
          LET before == built.result.menus[i]
              after == built'.result.menus[i]
          IN  /\ \A field_name \in before.argument.fields_set :
                    /\ field_name \in after.argument.fields_set
                    /\ FieldOf(after.argument, field_name)
                          = FieldOf(before.argument, field_name)
              /\ "configuration" \in before.fields_set
                    => after.configuration = before.configuration]_vars

\* a grandchild menu under a root whose style sets separator "equal": its
\* own configuration, and the multi_style its command argument set, are
\* as in the source after the three passes over it, and the separator the
\* argument took from its own menu was not replaced by the root's
C18_Witness ==
    /\ Constructed
    /\ Len(built.source) = 3
    /\ built.source[1].configuration.named_arguments_style.separator = "equal"
    /\ Declares(3)
    /\ built.source[3].argument = NamedArgumentSource("commands", [multi_style |-> ";"])
    /\ built.result.menus[3].configuration = built.source[3].configuration
    /\ built.result.menus[3].argument.multi_style = ";"
    /\ built.result.menus[3].argument.separator = "space"
    /\ "separator" \in built.result.menus[3].argument.fields_set

----------------------------------------------------------------------------
(* C20, under Spec *)

\* a dispatch that awaits nothing ended in this step: one started by a
\* key or by Tab that pushed no screen to wait for (a flag toggled, an
\* argument disabled, a command resolved or aborted without prompting)
EndsAtOnce ==
    /\ ev'.op \in {"key", "tab"}
    /\ ~IsNone(ev'.dispatched)
    /\ pending'.kind = "none"
    /\ Len(stack') = Len(stack)

\* the input screen a dispatch awaited was dismissed in this step, by a
\* submission or a cancellation, and the dispatch went on from there
InputReturns ==
    /\ ev'.op \in {"submit", "cancel"}
    /\ pending.kind /= "none"
    /\ pending' /= pending

\* the sub-menu screen a dispatch awaited was popped in this step
SubMenuReturns ==
    /\ ev'.op = "backspace"
    /\ Len(stack') < Len(stack)

\* no dispatch of the active screen is in progress after this step
AtRest == pending'.kind = "none"

\* C20: after every completed dispatch the dispatching screen's cur_input
\* is "": after a flag toggle or a disabling, after an input screen returns
\* a value or a cancellation, after a command resolves or aborts, and
\* after a sub-menu screen returns; a screen with no dispatch in progress
\* never holds a full shortcut.
C20_DispatchResetsInput ==
    [][/\ (EndsAtOnce \/ InputReturns \/ SubMenuReturns)
             => stack'[Len(stack')].cur_input = ""
       /\ AtRest
             => stack'[Len(stack')].cur_input
                   \notin Keys(candidates(stack'[Len(stack')].menu))]_vars

\* a command dispatch aborted on the cancellation of an input it prompted
\* for, and the screen's input is empty
C20_Witness ==
    /\ ev.op = "cancel"
    /\ ev.outcome = "aborted"
    /\ ~IsNone(ev.dispatched)
    /\ pending.kind = "none"
    /\ CurInput = ""

----------------------------------------------------------------------------
(* C21, under Spec *)

\* C21: a printable keystroke that completes no exact match changes
\* nothing but the cur_input of the active screen: the arguments, the
\* screens of the stack with their menus and edit modes, the awaited
\* input, the recorded command and the application (which keeps running,
\* without a message) are as before, and cur_input is the input with the
\* key added or "".
C21_UnmatchedKeyChangesOnlyInput ==
    [][(ev'.op = "key" /\ IsNone(ev'.dispatched)) =>
          /\ UNCHANGED <<on, value, selected, ancestors, modal, pending, command, app>>
          /\ ~app'.exited /\ app'.message = ""
          /\ Len(stack') = Len(stack)
          /\ \A i \in 1..Len(stack) :
                /\ stack'[i].menu = stack[i].menu
                /\ stack'[i].edit_mode = stack[i].edit_mode
                /\ stack'[i].is_entrypoint = stack[i].is_entrypoint
                /\ i < Len(stack) => stack'[i].cur_input = stack[i].cur_input
          /\ \/ stack'[Len(stack)].cur_input = ""
             \/ \E c \in Keyboard(CurMenu) :
                   stack'[Len(stack)].cur_input = CurInput \o c]_vars

\* a key that matched nothing emptied the input of a sub-menu screen in
\* edit mode, below which a screen still holds the sub-menu's shortcut,
\* while a flag is on
C21_Witness ==
    /\ ev.op = "key" /\ IsNone(ev.dispatched)
    /\ Len(stack) = 2
    /\ CurInput = "" /\ CurScreen.edit_mode
    /\ stack[1].cur_input /= ""
    /\ \E a \in FlagIds : on[a]

----------------------------------------------------------------------------
(* The typing scenario of the test suite: the application on the fixture   *)
(* menu (candidates "-f", "-v", "-c", "--long-flag" and the command "t"),  *)
(* with the key of every keystroke recorded in pressed.                    *)

\* the printable keys of the scenario: those of the menu's shortcuts and "e"
TestKeys == Keyboard("F") \cup {"e"}

InitTyping ==
    /\ NavigationAtRest
    /\ call = NoCall /\ hist = NoHistory /\ sugg = NoSuggestions /\ built = NotBuilt

\* pilot.press(character): MenuScreen.on_key
PressKey ==
    /\ MenuIdle
    /\ \E character \in TestKeys :
          /\ ApplyScreens(on_key(State, character))
          /\ pressed' = [input |-> stack[Len(stack)].cur_input, key |-> character]
    /\ UNCHANGED <<call, hist, sugg, built, rendered, cmd_runner>>

NextTyping ==
    \/ PressKey
    \/ Tab
    \/ Backspace
    \/ ChangeMode
    \/ ShowResults
    \/ InputSubmitted
    \/ OptionSelected
    \/ Cancel

SpecTyping == InitTyping /\ [][NextTyping]_vars

\* this step is the keystroke key on a screen whose input was input
Typed(input, key) ==
    /\ ev'.op = "key"
    /\ stack[Len(stack)].cur_input = input
    /\ pressed' = [input |-> input, key |-> key]

\* C22 as stated: with cur_input "--long", typing "e" dispatches the
\* single remaining match "--long-flag".
C22_KeyAutoCompletes ==
    [][Typed("--long", "e") =>
          /\ ev'.dispatched = StrV("--long-flag")
          /\ on'["fLong"] = ~on["fLong"]]_vars

\* C22: with cur_input "--long", typing "e" matches no candidate: the
\* input is reset to "", nothing is dispatched and no argument changes;
\* a keystroke dispatches "--long-flag" only when it completes the
\* shortcut in full.
C22_UnmatchedKeyClearsInput ==
    [][/\ Typed("--long", "e") =>
             /\ IsNone(ev'.dispatched)
             /\ stack'[Len(stack')].cur_input = ""
             /\ UNCHANGED <<on, value, selected, modal, pending, command, app>>
       /\ (ev'.op = "key" /\ pressed' /= pressed /\ ev'.dispatched = StrV("--long-flag"))
             => pressed'.input \o pressed'.key = "--long-flag"]_vars

\* "e" was typed after "--long": the input is empty and the flag
\* "--long-flag" is off
C22_Witness ==
    /\ pressed = [input |-> "--long", key |-> "e"]
    /\ ev.op = "key" /\ IsNone(ev.dispatched)
    /\ CurInput = ""
    /\ ~on["fLong"]

----------------------------------------------------------------------------
(* C23, under Spec *)

\* this step popped a sub-menu screen with backspace
PoppedSubMenu == ev'.op = "backspace" /\ Len(stack') = Len(stack) - 1

\* this step entered a sub-menu
EnteredSubMenu == ev'.op \in {"key", "tab"} /\ Len(stack') = Len(stack) + 1

\* C23: popping a sub-menu screen with backspace leaves every argument of
\* every menu (flags, selections, values) as it was, returns to the parent
\* screen with its edit_mode kept and its cur_input empty, and changes
\* neither the recorded command nor the application; entering a sub-menu
\* leaves every argument as it was too, so a sub-menu entered again shows
\* the argument state it was left with.
C23_PopKeepsArguments ==
    [][/\ PoppedSubMenu =>
             /\ UNCHANGED <<on, value, selected, modal, pending, command, app>>
             /\ \A i \in 1..Len(stack') :
                   /\ stack'[i].menu = stack[i].menu
                   /\ stack'[i].edit_mode = stack[i].edit_mode
                   /\ stack'[i].is_entrypoint = stack[i].is_entrypoint
             /\ stack'[Len(stack')].cur_input = ""
       /\ EnteredSubMenu =>
             /\ UNCHANGED <<on, value, selected>>
             /\ stack'[Len(stack')].menu
                   = Lookup(MenuDef(CurMenu).menus, ev'.dispatched.v[1])]_vars

\* back on the entrypoint in edit mode after a sub-menu in which a flag
\* and a value were set was left
C23_Witness ==
    /\ ev.op = "backspace"
    /\ Len(stack) = 1 /\ CurMenu = "D0"
    /\ CurInput = "" /\ CurScreen.edit_mode
    /\ on["dFlag"] /\ ~IsNone(value["dNamed"])
    /\ ancestors["D1"] /= <<>>

----------------------------------------------------------------------------
(* C24, under Spec *)

\* the state after this step, as a state record
NextState ==
    [stack |-> stack', on |-> on', value |-> value', selected |-> selected',
     ancestors |-> ancestors', modal |-> modal', pending |-> pending',
     command |-> command', app |-> app', ev |-> ev']

\* the shortcuts of the flags of the active menu
FlagShortcuts ==
    {k \in Keys(MenuDef(CurMenu).arguments) :
        ArgDef(Lookup(MenuDef(CurMenu).arguments, k)).type = "flag"}

\* C24: dispatching a FlagArgument flips on and nothing else but the
\* input, which it clears, and presents no input screen, whatever the
\* screen's edit_mode; enabled equals on; and typing the flag's shortcut
\* once more in the state reached gives back on, and every other argument
\* and screen, as they were before the first dispatch.
C24_FlagDispatchFlips ==
    [][(ev'.op \in {"key", "tab"} /\ ~IsNone(ev'.dispatched)
           /\ ev'.dispatched.v[1] \in FlagShortcuts) =>
          LET k == ev'.dispatched.v[1]
              a == Lookup(MenuDef(CurMenu).arguments, k)
              again == on_key(SetCurInput(NextState, SubSeq(k, 1, Len(k) - 1)),
                              SubSeq(k, Len(k), Len(k)))
          IN  /\ on' = [on EXCEPT ![a] = ~on[a]]
              /\ UNCHANGED <<value, selected, ancestors, modal, pending, command, app>>
              /\ stack' = [stack EXCEPT ![Len(stack)].cur_input = ""]
              /\ enabled(NextState, a) = on'[a] /\ enabled(State, a) = on[a]
              /\ again.on = on
              /\ again.stack = stack'
              /\ [again EXCEPT !.on = on', !.ev = ev'] = NextState]_vars

\* in edit mode the flag "-f" of the fixture menu was dispatched and is
\* off again, another argument keeping its value
C24_Witness ==
    /\ CurMenu = "F" /\ CurScreen.edit_mode
    /\ ev.dispatched = StrV("-f") /\ ~on["fFlag"]
    /\ ~IsNone(value["fValue"])
    /\ modal = NoModal /\ CurInput = ""

----------------------------------------------------------------------------
(* Sessions in in-place mode on the menu "I": the application keeps        *)
(* running after a command resolved, so that a later dispatch can abort.   *)

\* YakariApp(menu, dry_run, inplace=True) and on_mount
InitInplace ==
    /\ stack = <<MenuScreen("I", TRUE)>>
    /\ on = [a \in FlagIds |-> FALSE]
    /\ value = [a \in ValueIds |-> InitialValue(a)]
    /\ selected = [a \in ChoiceIds |-> NoneV]
    /\ ancestors = [m \in MenuIds |-> <<>>]
    /\ modal = NoModal
    /\ pending = NoPending
    /\ command = NoneV
    /\ \E dry_run \in BOOLEAN :
          app = [dry_run |-> dry_run, inplace |-> TRUE, exited |-> FALSE,
                 result |-> NoneV, message |-> "", runner |-> NoRun]
    /\ ev = Event("init")
    /\ call = NoCall /\ hist = NoHistory /\ sugg = NoSuggestions /\ built = NotBuilt
    /\ pressed = NoKey /\ rendered = NoRender /\ cmd_runner = NoRunner

NextInplace ==
    \/ Key
    \/ Tab
    \/ Backspace
    \/ ChangeMode
    \/ ShowResults
    \/ HideResults
    \/ InputSubmitted
    \/ Cancel

SpecInplace == InitInplace /\ [][NextInplace]_vars

\* the command whose dispatch this step belongs to
CommandOfStep == Declared(CurMenu, ev'.dispatched.v[1]).id

\* this step belongs to the dispatch of a command that has not resolved:
\* it prompts for, or resumes after, a dynamic argument, or aborts
InUnresolvedDispatch ==
    /\ ~IsNone(ev'.dispatched)
    /\ ev'.outcome /= "resolved"
    /\ \/ pending'.kind = "command"
       \/ pending.kind = "command"
       \/ ev'.outcome = "aborted"

\* the step changed no argument but the template's dynamic ones, nor the
\* screens (up to the input), nor the application and its runner
OnlyTemplateArgumentsEdited ==
    /\ \A a \in FlagIds \ Range(EmbeddedArguments(CommandOfStep)) : on'[a] = on[a]
    /\ \A a \in ValueIds \ Range(EmbeddedArguments(CommandOfStep)) : value'[a] = value[a]
    /\ \A a \in ChoiceIds \ Range(EmbeddedArguments(CommandOfStep)) : selected'[a] = selected[a]
    /\ Len(stack') = Len(stack)
    /\ \A i \in 1..Len(stack) :
          /\ stack'[i].menu = stack[i].menu
          /\ stack'[i].edit_mode = stack[i].edit_mode
          /\ stack'[i].is_entrypoint = stack[i].is_entrypoint
    /\ app' = app

\* C25: in every step of a command dispatch that ends aborted, nothing
\* changes except the template's dynamic arguments (and the input): the
\* menu's own arguments, the stack, the edit modes and the application's
\* recorded command are what they were before the dispatch, and no process
\* is started.
C25_AbortChangesNothingElse ==
    [][InUnresolvedDispatch =>
          /\ OnlyTemplateArgumentsEdited
          /\ command' = command]_vars

----------------------------------------------------------------------------
(* C26, under Spec *)

\* the value of argument a in state record s, whatever its variant
ArgumentState(s, a) ==
    CASE ArgDef(a).type = "flag"   -> s.on[a]
      [] ArgDef(a).type = "choice" -> s.selected[a]
      [] ArgDef(a).type = "value"  -> s.value[a]

\* C26: when resolution aborts at the k-th dynamic argument of a template
\* (the last one handed to process_argument_fn), the dynamic arguments
\* before it are still enabled, with their values untouched by the abort,
\* and the k-th is disabled; and the step that starts a command dispatch
\* and opens its first input screen changes no value or selection: the
\* resolver hands the template's arguments to process_argument_fn from the
\* first one on, each input screen opening on the value that was kept.
C26_AbortKeepsEarlierValues ==
    [][/\ ev'.outcome = "aborted" =>
             LET prompted == ev'.prompted IN
             /\ prompted /= <<>>
             /\ ~enabled(NextState, prompted[Len(prompted)])
             /\ \A j \in 1..(Len(prompted) - 1) :
                   /\ enabled(NextState, prompted[j])
                   /\ ArgumentState(NextState, prompted[j])
                         = ArgumentState(State, prompted[j])
       /\ (ev'.op \in {"key", "tab"} /\ pending'.kind = "command") =>
             /\ UNCHANGED <<value, selected>>
             /\ modal'.kind = ArgDef(modal'.arg).type
             /\ modal'.arg = ev'.prompted[Len(ev'.prompted)]
             /\ ev'.prompted = SubSeq(EmbeddedArguments(CommandOfStep),
                                      1, Len(ev'.prompted))]_vars

\* the command "r" aborted at its second dynamic argument: the value
\* collected for the first is still set
C26_Witness ==
    /\ CurMenu = "M"
    /\ ev.outcome = "aborted" /\ ev.prompted = <<"rTargets", "rMode">>
    /\ value["rTargets"] = StrV("foo")
    /\ IsNone(selected["rMode"])
    /\ IsNone(command)

----------------------------------------------------------------------------
(* C27, under SpecHistory *)

\* the step is a submission in the mounted input session
SubmissionStep ==
    /\ hist.session /= NoneV /\ hist.open
    /\ hist'.session = hist.session
    /\ hist'.log /= <<>>
    /\ hist'.open \/ hist'.log /= hist.log

\* the step unmounts the input session
UnmountStep == hist.session /= NoneV /\ hist'.session = NoneV

\* C27: the values typed into a password argument never reach the history
\* store: no step of a password session, whatever text it submits, reads
\* the store (no history loaded, no suggestion taken from it) or changes
\* it, and nothing is ever stored under a password argument's name; in the
\* session of a non-password argument a non-empty submitted text is added
\* to the history, where it becomes the most recent entry, an empty one
\* leaves the history as it is, and the history is written to the store
\* when the session ends.
C27_PasswordNeverStored ==
    [][/\ \A argument \in SessionArguments :
             argument.password => hist'.store[argument.name] = <<>>
       /\ (hist'.session /= NoneV /\ hist'.session.password) =>
             /\ hist'.store = hist.store
             /\ hist'.values = <<>> /\ hist'.suggested = <<>>
       /\ (UnmountStep /\ hist.session.password) => hist'.store = hist.store
       /\ (SubmissionStep /\ ~hist.session.password) =>
             LET text == hist'.log[1] IN
             /\ hist'.store = hist.store
             /\ hist'.values = IF text = "" THEN hist.values
                               ELSE add(History(hist.values, hist.max_size), text).values
             /\ text /= "" => /\ hist'.values /= <<>>
                              /\ hist'.values[Len(hist'.values)] = text
       /\ (UnmountStep /\ ~hist.session.password) =>
             hist'.store = [hist.store EXCEPT ![hist.session.name] = hist.values]]_vars

\* "a" was submitted to the password argument "--key" after sessions of
\* "--out" had recorded "b" and "a": the store holds what it held before,
\* and nothing was loaded for the password session
C27_Witness ==
    /\ hist.session /= NoneV /\ hist.session.name = "--key"
    /\ hist.log = <<"a">> /\ ~hist.open
    /\ hist.store = [name \in SessionNames |->
                        IF name = "--out" THEN <<"b", "a">> ELSE <<>>]
    /\ hist.values = <<>> /\ hist.suggested = <<>>

----------------------------------------------------------------------------
(* C28, under Spec *)

\* the in-place mode that holds for the command dispatched by the step:
\* its own when it sets one, the application's otherwise
EffectiveInplace ==
    LET own == CommandDef(CommandOfStep).inplace
    IN  IF IsNone(own) THEN app.inplace ELSE own = StrV("true")

\* C28, as claimed: a dispatch that resolves with the effective in-place
\* mode off ends the application with the token vector as the result of
\* its run; with the mode on the application goes on, the menu screens
\* stay on the stack and the vector is handed to the results runner.
C28_ResolvedVectorReturnedOrRun ==
    [][ev'.outcome = "resolved" =>
          IF EffectiveInplace
          THEN /\ ~app'.exited
               /\ [i \in 1..Len(stack') |-> stack'[i].menu]
                     = [i \in 1..Len(stack) |-> stack[i].menu]
               /\ app'.runner.op = "start" /\ app'.runner.command = command'.v
          ELSE /\ app'.exited
               /\ app'.result = command' /\ ~IsNone(command')]_vars

\* C28, amended: what the claim says holds when the application does not
\* run dry.  In a dry run a dispatch that resolves with the effective
\* in-place mode off ends the application with no result and the command
\* line as its exit message; with the mode on the application goes on, the
\* menu screens stay on the stack, the results screen is shown and the
\* runner is given the line "$> " followed by the command line to write,
\* and no vector to run.
C28_ResolvedOutcomeByMode ==
    [][ev'.outcome = "resolved" =>
          LET command_str == Join(" ", command'.v) IN
          /\ ~IsNone(command')
          /\ IF EffectiveInplace
             THEN /\ ~app'.exited /\ IsNone(app'.result)
                  /\ [i \in 1..Len(stack') |-> stack'[i].menu]
                        = [i \in 1..Len(stack) |-> stack[i].menu]
                  /\ modal' = ResultsScreen
                  /\ app'.runner = IF app.dry_run
                                   THEN [op |-> "write", command |-> <<>>,
                                         text |-> "$> " \o command_str]
                                   ELSE [op |-> "start", command |-> command'.v,
                                         text |-> ""]
             ELSE /\ app'.exited
                  /\ app'.message = command_str
                  /\ app'.runner = app.runner
                  /\ app'.result = IF app.dry_run THEN NoneV ELSE command']_vars

\* in a dry run started in-place, the command of menu "P" that sets its
\* own inplace to false resolved: the application ended with no result
C28_Witness ==
    /\ ev.outcome = "resolved" /\ CurMenu = "P"
    /\ app.dry_run /\ app.inplace
    /\ app.exited /\ IsNone(app.result)
    /\ ~IsNone(command) /\ app.message = Join(" ", command.v)

----------------------------------------------------------------------------
(* NamedArgument.render_template on arguments of its own: every            *)
(* combination of a positional or a named argument, separator, multi and   *)
(* multi_style, with every value list of at most MaxValues values.  An     *)
(* argument whose value is a list, the empty one included, is enabled.     *)

\* the values of the lists
RenderValues == {"a", "b"}

\* the value lists (get_value_list of an enabled argument)
ValueLists == UNION {[1..n -> RenderValues] : n \in 0..MaxValues}

\* the arguments, without custom template
NamedArguments ==
    {ValueArgument(name, separator, multi, multi_style) :
        name \in {"src", "--to"}, separator \in {"space", "equal"},
        multi \in BOOLEAN, multi_style \in {"repeat", ","}}

InitRender ==
    /\ stack = <<MenuScreen("F", TRUE)>>
    /\ on = [a \in FlagIds |-> FALSE]
    /\ value = [a \in ValueIds |-> InitialValue(a)]
    /\ selected = [a \in ChoiceIds |-> NoneV]
    /\ ancestors = [m \in MenuIds |-> <<>>]
    /\ modal = NoModal
    /\ pending = NoPending
    /\ command = NoneV
    /\ app = [dry_run |-> FALSE, inplace |-> FALSE, exited |-> FALSE,
              result |-> NoneV, message |-> "", runner |-> NoRun]
    /\ ev = Event("init")
    /\ call = NoCall /\ hist = NoHistory /\ sugg = NoSuggestions /\ built = NotBuilt
    /\ pressed = NoKey /\ cmd_runner = NoRunner
    /\ \E argument \in NamedArguments, values \in ValueLists :
          rendered = [NoRender EXCEPT !.argument = argument, !.values = values]

\* argument.render_template()
Render ==
    /\ ~rendered.returned
    /\ rendered' = [rendered EXCEPT
                       !.returned = TRUE,
                       !.result = NamedRender(rendered.argument, ListV(rendered.values))]
    /\ UNCHANGED <<nav_vars, call, hist, sugg, built, pressed, cmd_runner>>

NextRender == Render

SpecRender == InitRender /\ [][NextRender]_vars

\* the values joined by a string, written out for the lists of the model
Joined(sep, values) ==
    CASE Len(values) = 0 -> ""
      [] Len(values) = 1 -> values[1]
      [] Len(values) = 2 -> values[1] \o sep \o values[2]
      [] OTHER -> values[1] \o sep \o values[2] \o sep \o values[3]

\* the rule table: what an argument named name renders for the value list
RuleTable(argument, values) ==
    LET n == Len(values)
        is_positional == SubSeq(argument.name, 1, 1) /= "-"
    IN  CASE is_positional /\ argument.multi_style = "repeat" ->
               ListV(values)
          [] is_positional /\ argument.multi_style /= "repeat" ->
               StrV(Joined(argument.multi_style, values))
          [] ~is_positional /\ ~argument.multi /\ argument.separator = "space" ->
               ListV(<<argument.name, values[1]>>)
          [] ~is_positional /\ ~argument.multi /\ argument.separator = "equal" ->
               StrV(argument.name \o "=" \o values[1])
          [] ~is_positional /\ argument.multi /\ argument.multi_style = "repeat"
                /\ argument.separator = "space" ->
               ListV([i \in 1..(2 * n) |->
                         IF i % 2 = 1 THEN argument.name ELSE values[i \div 2]])
          [] ~is_positional /\ argument.multi /\ argument.multi_style = "repeat"
                /\ argument.separator = "equal" ->
               ListV([i \in 1..n |-> argument.name \o "=" \o values[i]])
          [] ~is_positional /\ argument.multi /\ argument.multi_style /= "repeat"
                /\ argument.separator = "space" ->
               ListV(<<argument.name, Joined(argument.multi_style, values)>>)
          [] ~is_positional /\ argument.multi /\ argument.multi_style /= "repeat"
                /\ argument.separator = "equal" ->
               StrV(argument.name \o "=" \o Joined(argument.multi_style, values))

\* the rule table gives a rendering: every row but the one of a named
\* argument that is not multi, which needs a value to render
TableApplies(argument, values) ==
    values /= <<>> \/ argument.multi \/ SubSeq(argument.name, 1, 1) /= "-"

\* C30: for an enabled NamedArgument with no custom template,
\* render_template returns what the rule table gives, for every
\* combination of positional or not, multi, multi_style, separator and
\* value list.
C30_RenderIsRuleTable ==
    rendered.returned =>
        /\ TableApplies(rendered.argument, rendered.values)
        /\ rendered.result = RuleTable(rendered.argument, rendered.values)

\* where the table has a value to render, render_template returns what it
\* gives; a named argument that is not multi renders the first value of
\* its list
C30_RenderIsRuleTableWhereValued ==
    (rendered.returned /\ TableApplies(rendered.argument, rendered.values)) =>
        rendered.result = RuleTable(rendered.argument, rendered.values)

\* the named multi argument of the repeat style rendered two values with
\* the space separator: four tokens
C30_WitnessRepeat ==
    /\ rendered.returned
    /\ rendered.argument = ValueArgument("--to", "space", TRUE, "repeat")
    /\ rendered.values = <<"a", "b">>
    /\ rendered.result = ListV(<<"--to", "a", "--to", "b">>)

\* render_template of an enabled named argument that is not multi and
\* whose value list is empty raised (values[0])
C30_RaisedOnEmptyList ==
    /\ rendered.returned
    /\ rendered.values = <<>> /\ ~rendered.argument.multi
    /\ rendered.result = ErrorV

----------------------------------------------------------------------------
(* The normalisation of ChoiceArgument.selected on values of its own: the  *)
(* validator run on a given value, and run again on what it returned, and  *)
(* the same value taken as the result of an input screen.  built holds the *)
(* value and the successive results of the validator.                      *)

\* the strings of the values
SelectedTexts == {"a", "b", "z"}

\* what is given for selected, or returned by an input screen
SelectedValues ==
    {NoneV} \cup {StrV(text) : text \in SelectedTexts}
            \cup {ListV(l) : l \in UNION {[1..n -> SelectedTexts] : n \in 0..MaxValues}}

InitNormalize ==
    /\ NavigationAtRest
    /\ call = NoCall /\ hist = NoHistory /\ sugg = NoSuggestions
    /\ \E selected_value \in SelectedValues :
          built = [source |-> selected_value, result |-> <<>>]

\* the validator, on the given value and then on its own result
Validate ==
    /\ Len(built.result) < MaxValidations
    /\ built' = [built EXCEPT !.result =
                    Append(@, sanitize_selected_value(
                                  IF @ = <<>> THEN built.source ELSE @[Len(@)]))]
    /\ UNCHANGED <<nav_vars, call, hist, sugg, pressed, rendered, cmd_runner>>

\* the value comes back from the input screen of a choice argument
Collaborate ==
    \E a \in {"fChoice", "mSel"} :
       /\ IsNone(selected[a])
       /\ ApplyScreens(set_argument_value_and_reset_input(State, a, built.source))
       /\ UNCHANGED aux_vars

NextNormalize == Validate \/ Collaborate

SpecNormalize == InitNormalize /\ [][NextNormalize]_vars

\* the normal form: a bare string is the one-element list of it
Normalized(x) == IF x.tag = "str" THEN [tag |-> "list", v |-> <<x.v[1]>>] ELSE x

\* get_value_list of a choice argument whose selected is x
ValueListOf(x) == get_value_list([State EXCEPT !.selected["fChoice"] = x], "fChoice")

\* C31: normalisation of ChoiceArgument.selected is idempotent and keeps
\* the value: a bare string s becomes [s], a list or None stays as it is,
\* a second normalisation changes nothing, and get_value_list gives the
\* same list before and after; an input screen's result (string, list or
\* None) is stored in the same normal form, and storing the stored value
\* again changes nothing.
C31_NormalizationIdempotent ==
    [][/\ built' /= built =>
             LET n == Len(built'.result)
                 result == built'.result[n]
             IN  /\ n = Len(built.result) + 1
                 /\ result = Normalized(built.source)
                 /\ n > 1 => result = built.result[n - 1]
                 /\ ValueListOf(result) = ValueListOf(built.source)
       /\ \A a \in ChoiceIds :
             selected'[a] /= selected[a] =>
                /\ selected'[a] = Normalized(built.source)
                /\ set_argument_value_and_reset_input(NextState, a, selected'[a]).selected[a]
                      = selected'[a]
                /\ get_value_list(NextState, a) = ValueListOf(built.source)]_vars

\* the string "a" was normalised twice, and was stored as the result of
\* the input screen of the choice argument of menu "F"
C31_Witness ==
    /\ built.source = StrV("a")
    /\ built.result = <<ListV(<<"a">>), ListV(<<"a">>)>>
    /\ selected["fChoice"] = ListV(<<"a">>)

----------------------------------------------------------------------------
(* The cursor of the History of pytransient: values is a deque, newest     *)
(* first, and cur_pos is None or an index into it.  In hist, cur_pos is    *)
(* <<>> for None and <<i>> for the Python index i (values[i] is the        *)
(* i+1-th element, values[-1] the last); op and returned record the last   *)
(* call and what it returned.                                              *)

\* values[i] of Python, for -len <= i < len
PyIndex(values, i) == IF i < 0 THEN values[Len(values) + i + 1] ELSE values[i + 1]

\* History.restart
restart(h) ==
    IF h.values = <<>>
    THEN [h EXCEPT !.cur_pos = <<>>, !.op = "restart", !.returned = NoneV]
    ELSE [h EXCEPT !.cur_pos = <<-1>>, !.op = "restart", !.returned = NoneV]

\* History.prev
prev(h) ==
    IF h.cur_pos = <<>>
    THEN [h EXCEPT !.op = "prev", !.returned = NoneV]
    ELSE LET prev_index == h.cur_pos[1] + 1
             cur_pos == IF prev_index >= Len(h.values) THEN 0 ELSE prev_index
         IN  [h EXCEPT !.cur_pos = <<cur_pos>>, !.op = "prev",
                       !.returned = StrV(PyIndex(h.values, cur_pos))]

\* History.next
next(h) ==
    IF h.cur_pos = <<>>
    THEN [h EXCEPT !.op = "next", !.returned = NoneV]
    ELSE LET next_index == h.cur_pos[1] - 1
             cur_pos == IF next_index < 0 THEN Len(h.values) - 1 ELSE next_index
         IN  [h EXCEPT !.cur_pos = <<cur_pos>>, !.op = "next",
                       !.returned = StrV(PyIndex(h.values, cur_pos))]

\* History(values=deque(...)): no position set
InitCursor ==
    /\ NavigationAtRest
    /\ call = NoCall /\ sugg = NoSuggestions /\ built = NotBuilt
    /\ \E values \in UNION {[1..n -> HistoryValues \ {""}] : n \in 0..MaxDeque} :
          hist = [NoHistory EXCEPT !.values = values]

CursorRestart ==
    /\ hist' = restart(hist)
    /\ UNCHANGED <<nav_vars, call, sugg, built, pressed, rendered, cmd_runner>>
CursorPrev ==
    /\ hist' = prev(hist)
    /\ UNCHANGED <<nav_vars, call, sugg, built, pressed, rendered, cmd_runner>>
CursorNext ==
    /\ hist' = next(hist)
    /\ UNCHANGED <<nav_vars, call, sugg, built, pressed, rendered, cmd_runner>>

NextCursor == CursorRestart \/ CursorPrev \/ CursorNext

SpecCursor == InitCursor /\ [][NextCursor]_vars

\* the cursor is set, on a history that is not empty
CursorSet == hist.cur_pos /= <<>> /\ hist.values /= <<>>

\* the element the cursor is on, counted from 0
Position(h) == h.cur_pos[1] % Len(h.values)

\* prev moved one index forward, wrapping from the last index to 0, and
\* returned the value there; after it the cursor is a valid index
PrevRule ==
    (CursorSet /\ hist'.op = "prev") =>
        /\ hist'.cur_pos = <<(Position(hist) + 1) % Len(hist.values)>>
        /\ hist'.returned = StrV(hist.values[hist'.cur_pos[1] + 1])
        /\ hist'.values = hist.values

\* next moved one index back, wrapping from 0 to the last index, and
\* returned the value there
NextRule ==
    (CursorSet /\ hist'.op = "next") =>
        /\ hist'.cur_pos = <<(Position(hist) + Len(hist.values) - 1) % Len(hist.values)>>
        /\ hist'.returned = StrV(hist.values[hist'.cur_pos[1] + 1])
        /\ hist'.values = hist.values

\* prev followed by next comes back to the element it started from
PrevThenNext == CursorSet => Position(next(prev(hist))) = Position(hist)

\* C32: over a non-empty history with a set position, prev moves the
\* cursor one index forward and wraps from the last index to 0, next moves
\* it one index back and wraps from 0 to the last index, each returns the
\* value at the new position, prev followed by next returns to the
\* starting position, and after prev or next the cursor is a valid index.
C32_CursorNavigation ==
    [][PrevRule /\ NextRule /\ PrevThenNext]_vars

\* what holds of the code: the claim but for next at the position that
\* restart sets, from where next goes to the last index, the element the
\* cursor is already on
C32_CursorNavigationButAfterRestart ==
    [][/\ PrevRule /\ PrevThenNext
       /\ hist.cur_pos /= <<-1>> => NextRule
       /\ (CursorSet /\ hist.cur_pos = <<-1>> /\ hist'.op = "next") =>
             /\ hist'.cur_pos = <<Len(hist.values) - 1>>
             /\ hist'.returned = StrV(hist.values[Len(hist.values)])]_vars

\* next right after restart on a history of two values
C32_NextAfterRestart ==
    /\ hist.values = <<"a", "b">>
    /\ hist.op = "next" /\ hist.cur_pos = <<1>> /\ hist.returned = StrV("b")

----------------------------------------------------------------------------
(* C33, under Spec *)

\* C33: whenever the input screen of a choice or value argument is
\* cancelled, the argument ends disabled, whether it was enabled before or
\* not and whether the screen was opened by a dispatch of the argument, in
\* edit mode or not, or by a command for one of its dynamic arguments:
\* selected or value is None, nothing of the previous value is kept, and a
\* command dispatch that awaited the screen aborts.
C33_CancelDisables ==
    [][ev'.op = "cancel" =>
          LET a == modal.arg IN
          /\ modal.kind \in {"choice", "value"}
          /\ modal'.kind = "none"
          /\ ~enabled(NextState, a)
          /\ IF ArgDef(a).type = "choice"
             THEN selected' = [selected EXCEPT ![a] = NoneV] /\ value' = value
             ELSE value' = [value EXCEPT ![a] = NoneV] /\ selected' = selected
          /\ on' = on
          /\ pending.kind = "command" =>
                ev'.outcome = "aborted" /\ IsNone(command') /\ pending' = NoPending]_vars

\* the step cancels the input screen of an argument that is enabled
CancelOfEnabled == ev'.op = "cancel" /\ enabled(State, modal.arg)

\* no input screen of an enabled argument is ever cancelled (it is: in
\* edit mode, and in a command that embeds the argument)
C33_NeverCancelOfEnabled == [][~CancelOfEnabled]_vars

\* in edit mode, the input screen of the argument "--parent" of menu "D0",
\* whose value is given by the definition, was cancelled: no value is left
C33_Witness ==
    /\ stack[1].menu = "D0" /\ Len(stack) = 1 /\ stack[1].edit_mode
    /\ ev.op = "cancel" /\ ev.dispatched = StrV("-p")
    /\ IsNone(value["dParent"])
    /\ modal = NoModal

----------------------------------------------------------------------------
(* Sessions on the menus "X" and "E", whose shortcuts conflict by prefix. *)

\* the menus the sessions are started on
ShadowedMenus == {"X", "E"}

\* YakariApp(menu) and on_mount
InitShadowed ==
    /\ \E menu \in ShadowedMenus : stack = <<MenuScreen(menu, TRUE)>>
    /\ on = [a \in FlagIds |-> FALSE]
    /\ value = [a \in ValueIds |-> InitialValue(a)]
    /\ selected = [a \in ChoiceIds |-> NoneV]
    /\ ancestors = [m \in MenuIds |-> <<>>]
    /\ modal = NoModal
    /\ pending = NoPending
    /\ command = NoneV
    /\ app = [dry_run |-> FALSE, inplace |-> FALSE, exited |-> FALSE,
              result |-> NoneV, message |-> "", runner |-> NoRun]
    /\ ev = Event("init")
    /\ call = NoCall /\ hist = NoHistory /\ sugg = NoSuggestions /\ built = NotBuilt
    /\ pressed = NoKey /\ rendered = NoRender /\ cmd_runner = NoRunner

NextShadowed ==
    \/ Key
    \/ Tab
    \/ Backspace
    \/ ChangeMode
    \/ InputSubmitted
    \/ Cancel

SpecShadowed == InitShadowed /\ [][NextShadowed]_vars

\* p is a prefix of k, and shorter
ProperPrefix(p, k) == Len(p) < Len(k) /\ SubSeq(k, 1, Len(p)) = p

\* the shortcuts of a menu that have another shortcut of it as a proper prefix
Shadowed(menu) ==
    {k \in ShortcutsOf(menu) : \E p \in ShortcutsOf(menu) : ProperPrefix(p, k)}

\* the shortcuts of a menu that have another, non-empty shortcut of it as a
\* proper prefix
ShadowedByKeys(menu) ==
    {k \in ShortcutsOf(menu) :
        \E p \in ShortcutsOf(menu) : p /= "" /\ ProperPrefix(p, k)}

\* whenever the active menu screen is idle, its cur_input is empty, or a
\* proper prefix of at least one candidate shortcut and equal to none
IdleInputIsProperPrefix ==
    (~app'.exited /\ modal'.kind = "none") =>
        LET cur_input == stack'[Len(stack')].cur_input
            shortcuts == ShortcutsOf(stack'[Len(stack')].menu)
        IN  \/ cur_input = ""
            \/ /\ cur_input \notin shortcuts
               /\ \E k \in shortcuts : ProperPrefix(cur_input, k)

\* C34 as stated: the idle cur_input is empty or a proper prefix of a
\* candidate shortcut and equal to none, and no step dispatches a candidate
\* whose shortcut has another candidate's shortcut as a proper prefix.
C34_ShadowedNeverDispatched ==
    [][/\ IdleInputIsProperPrefix
       /\ \A k \in Shadowed(CurMenu) : ev'.dispatched /= StrV(k)]_vars

\* C34: whenever the active menu screen is idle, its cur_input is empty, or
\* a proper prefix of at least one candidate shortcut and equal to none;
\* and no step dispatches a candidate whose shortcut has another
\* candidate's non-empty shortcut as a proper prefix.
C34_IdleInputIsProperPrefix ==
    [][/\ IdleInputIsProperPrefix
       /\ \A k \in ShadowedByKeys(CurMenu) : ev'.dispatched /= StrV(k)]_vars

\* the idle cur_input alone, which holds on every menu
C34_IdleInputOnly == [][IdleInputIsProperPrefix]_vars

\* the empty shortcut is never dispatched
C34_EmptyNeverDispatched == [][ev'.dispatched /= StrV("")]_vars

\* on menu "E", "a" was dispatched although the shortcut "" is a proper
\* prefix of it
C34_DispatchedOverEmpty ==
    /\ CurMenu = "E" /\ MenuIdle
    /\ ev.dispatched = StrV("a") /\ on["eA"]
    /\ "a" \in Shadowed("E")

\* on menu "X", "cf" was typed after "a" and "cfg" were dispatched: the
\* flags under "ab" and "cfgh" are off
C34_Witness ==
    /\ CurMenu = "X" /\ MenuIdle
    /\ CurInput = "cf"
    /\ on["xA"] /\ on["xCFG"]
    /\ ~on["xAB"] /\ ~on["xCFGH"]
    /\ ShadowedByKeys("X") = {"ab", "cfgh"}

----------------------------------------------------------------------------
(* C35, under SpecInplace: the command "k" of menu "I" embeds the flag     *)
(* iForce, which no menu lists.                                            *)

\* the step dispatched a command whose template's first dynamic part is a
\* flag
DispatchOfFlagCommand ==
    /\ ev'.op \in {"key", "tab"}
    /\ ~IsNone(ev'.dispatched)
    /\ Declared(CurMenu, ev'.dispatched.v[1]).kind = "command"
    /\ EmbeddedArguments(CommandOfStep) /= <<>>
    /\ ArgDef(EmbeddedArguments(CommandOfStep)[1]).type = "flag"

\* C35: every dispatch of a command whose template embeds a flag directly
\* flips the flag: from off, the dispatch turns it on, renders it into the
\* command and resolves; from on, the dispatch turns it off and the
\* resolution aborts there.  Starting from off, the odd dispatches succeed
\* and the even ones abort.
C35_EmbeddedFlagAlternates ==
    [][DispatchOfFlagCommand =>
          LET flag == EmbeddedArguments(CommandOfStep)[1] IN
          /\ on'[flag] = ~on[flag]
          /\ ~on[flag] =>
                /\ EmbeddedArguments(CommandOfStep) = <<flag>> => ev'.outcome = "resolved"
                /\ ev'.outcome = "resolved" =>
                      /\ ~IsNone(command')
                      /\ ArgDef(flag).name \in Range(command'.v)
          /\ on[flag] =>
                /\ ev'.outcome = "aborted"
                /\ ev'.prompted = <<flag>>
                /\ IsNone(command')
                /\ app' = app]_vars

\* the second dispatch of "k": the first one ran "kill --force now", this
\* one turned the flag off and aborted
C35_Witness ==
    /\ CurMenu = "I" /\ MenuIdle
    /\ ev.dispatched = StrV("k") /\ ev.outcome = "aborted"
    /\ ~on["iForce"]
    /\ app.runner.op = "start" /\ app.runner.command = <<"kill", "--force", "now">>
    /\ IsNone(command)

\* the first dispatch of "k"
C35_WitnessFirst ==
    /\ CurMenu = "I"
    /\ ev.dispatched = StrV("k") /\ ev.outcome = "resolved"
    /\ on["iForce"]
    /\ command = ListV(<<"kill", "--force", "now">>)

----------------------------------------------------------------------------
(* C36, under Spec *)

\* the menus declared as sub-menus of a menu
SubMenus(menu) == {MenuDef(menu).menus[i].val : i \in 1..Len(MenuDef(menu).menus)}

\* the menu screens form a path of the menu tree that starts at the menu
\* the application was started on, and the bottom one alone is the
\* entrypoint
StackIsPath ==
    /\ Len(stack) >= 1
    /\ stack[1].menu \in EntryMenus
    /\ \A i \in 1..Len(stack) :
          /\ stack[i].is_entrypoint <=> i = 1
          /\ i > 1 => stack[i].menu \in SubMenus(stack[i - 1].menu)

\* a step that pushes a menu screen pushes one with no input, not in edit
\* mode, above the screens that were there
PushStartsClean ==
    Len(stack') > Len(stack) =>
        /\ Len(stack') = Len(stack) + 1
        /\ stack'[Len(stack')].cur_input = ""
        /\ ~stack'[Len(stack')].edit_mode
        /\ \A i \in 1..Len(stack) : stack'[i].menu = stack[i].menu

\* no step removes the entrypoint screen, and a backspace removes at most
\* the top screen, when its input is empty and it is not the entrypoint
EntrypointStays ==
    /\ stack'[1].menu = stack[1].menu
    /\ Len(stack') < Len(stack) =>
          /\ ev'.op = "backspace"
          /\ Len(stack') = Len(stack) - 1
          /\ stack[Len(stack)].cur_input = ""
          /\ ~stack[Len(stack)].is_entrypoint
    /\ (ev'.op = "backspace" /\ Len(stack) = 1) => Len(stack') = 1

\* C36: in every reachable state the menu screens on the stack form a path
\* in the menu tree from the root menu to the current menu, exactly the
\* bottom screen has is_entrypoint set; each newly pushed sub-menu screen
\* starts with empty cur_input and edit_mode off; and no backspace removes
\* the entrypoint screen.
C36_StackIsPathFromEntrypoint ==
    /\ []StackIsPath
    /\ [][PushStartsClean /\ EntrypointStays]_vars

\* two levels below an entrypoint that is in edit mode, on screens opened
\* with no input and edit mode off
C36_Witness ==
    /\ Len(stack) = 3
    /\ <<stack[1].menu, stack[2].menu, stack[3].menu>> = <<"D0", "D1", "D2">>
    /\ stack[1].edit_mode /\ ~stack[3].edit_mode
    /\ ev.op = "key" /\ ev.dispatched = StrV("b")

\* a backspace on the entrypoint with no input left it in place
C36_WitnessBackspace ==
    /\ Len(stack) = 1 /\ ev.op = "backspace" /\ stack[1].cur_input = ""
    /\ stack[1].edit_mode

----------------------------------------------------------------------------
(* C40, under Spec *)

\* C40: in a dry run no step hands a command to the runner to start, and
\* the application never holds a result to return; a dispatch that
\* resolves either shows the results and gives the runner the line "$> "
\* followed by the command line to write (effective in-place mode on), or
\* ends the application with no result and the command line as its message
\* (mode off).
C40_DryRunStartsNothing ==
    [][app.dry_run =>
          /\ app'.dry_run
          /\ app'.runner.op /= "start"
          /\ IsNone(app'.result)
          /\ app'.runner /= app.runner =>
                /\ ev'.outcome = "resolved"
                /\ app'.runner.op = "write"
          /\ ev'.outcome = "resolved" =>
                IF EffectiveInplace
                THEN /\ ~app'.exited
                     /\ app'.runner.op = "write"
                     /\ app'.runner.text = "$> " \o Join(" ", command'.v)
                     /\ app'.runner.command = <<>>
                ELSE /\ app'.exited
                     /\ app'.message = Join(" ", command'.v)
                     /\ app'.runner = app.runner]_vars

\* a dry run in in-place mode, after a command was dispatched with a flag
\* on: the results show its command line, nothing was started
C40_Witness ==
    /\ app.dry_run /\ app.inplace /\ ~app.exited
    /\ CurMenu = "P" /\ ev.outcome = "resolved" /\ ev.dispatched = StrV("x")
    /\ on["pQuiet"]
    /\ app.runner.op = "write" /\ app.runner.text = "$> " \o Join(" ", command.v)
    /\ modal = ResultsScreen

\* a dry run with the mode off ended with the command line as its message
C40_WitnessExit ==
    /\ app.dry_run /\ ~app.inplace /\ app.exited
    /\ IsNone(app.result) /\ app.message = Join(" ", command.v)
    /\ app.runner = NoRun

----------------------------------------------------------------------------
(* CommandRunner: start_subprocess, the tasks it creates and the hook that *)
(* terminates the subprocess.  The runner is an asyncio program: a task    *)
(* runs until it suspends at an await, so a step of the model is the code  *)
(* of one task between two suspensions.  extra_stdout_lock is never held   *)
(* across a suspension, so "async with" finds it free and takes it without *)
(* suspending.  The subprocess and its pipes are the environment: what it  *)
(* writes, when it exits and when the end of its output is seen are free.  *)
(* stderr is not followed: the subprocesses of the model write to stdout.  *)

\* stream.read(READSIZE): the longest payload of one read (2048 in the
\* source, scaled to the outputs below)
READSIZE == 5

\* the subprocesses one runner is asked to start
MaxStarts == 2

\* what a subprocess may write to stdout before it exits, as the chunks
\* that reach the pipe
Scripts == {<<>>, <<"abc">>, <<"x\nabc">>, <<"ab", "c\nd">>, <<"ab\ncd\nef\ng">>,
            <<"ab\n", "ab">>}

RECURSIVE Cat(_)
\* b"".join(chunks)
Cat(chunks) == IF chunks = <<>> THEN "" ELSE Head(chunks) \o Cat(Tail(chunks))

\* a subprocess as create_subprocess_exec spawns it, with the positions of
\* the worker that started it and of the two tasks that follow its stdout
Process(script) ==
    [status |-> "running", script |-> script, output |-> Cat(script),
     buffer |-> "", eof |-> FALSE,
     worker |-> "create", stdout |-> "none", watcher |-> "none",
     extra_before |-> ""]

\* log_widget.write(text), on behalf of subprocess p
Write(r, kind, p, text) ==
    [r EXCEPT !.log = Append(@, [kind |-> kind, p |-> p, text |-> text])]

RECURSIVE LastNewline(_, _)
\* the position of the last "\n" among the first i characters of s, or 0
LastNewline(s, i) ==
    IF i = 0 THEN 0
    ELSE IF SubSeq(s, i, i) = "\n" THEN i ELSE LastNewline(s, i - 1)

\* payload.rsplit(b"\n", 1), as <<payload, extra>> with extra a list
rsplit(payload) ==
    LET i == LastNewline(payload, Len(payload)) IN
    IF i = 0 THEN <<payload, <<>>>>
    ELSE <<SubSeq(payload, 1, i - 1), <<SubSeq(payload, i + 1, Len(payload))>>>>

RECURSIVE decode_strip(_)
\* payload.decode().strip()
decode_strip(s) ==
    IF s = "" THEN ""
    ELSE IF SubSeq(s, 1, 1) \in {"\n", " "} THEN decode_strip(SubSeq(s, 2, Len(s)))
    ELSE IF SubSeq(s, Len(s), Len(s)) \in {"\n", " "} THEN decode_strip(SubSeq(s, 1, Len(s) - 1))
    ELSE s

\* CommandRunner.start_subprocess up to "await create_subprocess_exec"
start_subprocess(r, script) ==
    [Write(r, "command", Len(r.procs) + 1, "$> ") EXCEPT
        !._process_running = TRUE,
        !.procs = Append(@, Process(script))]

\* start_subprocess that writes the finished message whatever
\* _process_running says
start_subprocess_finished_Always(r, p) ==
    [Write(r, "finished", p, "[Command finished]") EXCEPT
        !._process_running = FALSE,
        !.subprocess = 0,
        !.procs[p].worker = "done"]

\* start_subprocess from the return of "await self.subprocess.wait()" on
start_subprocess_finished(r, p) ==
    LET r1 == IF r._process_running
              THEN [Write(r, "finished", p, "[Command finished]") EXCEPT
                        !._process_running = FALSE]
              ELSE r
    IN  [r1 EXCEPT !.subprocess = 0, !.procs[p].worker = "done"]

\* start_subprocess from the return of create_subprocess_exec to its wait:
\* wait() returns at once when the subprocess has exited already
start_subprocess_created(r, p) ==
    LET r1 == [r EXCEPT !.subprocess = p,
                        !.procs[p].stdout = "start",
                        !.procs[p].watcher = "start"]
    IN  IF r.procs[p].status = "exited"
        THEN start_subprocess_finished(r1, p)
        ELSE [r1 EXCEPT !.procs[p].worker = "wait"]

\* the second locked block of the watcher, were it to leave extra_stdout
\* as it is after writing it
extra_stdout_watcher_check_KeepsExtra(r, p) ==
    IF r.procs[p].extra_before /= "" /\ r.procs[p].extra_before = r.extra_stdout
    THEN Write(r, "stdout", p, r.extra_stdout)
    ELSE r

\* the second locked block of extra_stdout_watcher
extra_stdout_watcher_check(r, p) ==
    IF r.procs[p].extra_before /= "" /\ r.procs[p].extra_before = r.extra_stdout
    THEN [Write(r, "stdout", p, r.extra_stdout) EXCEPT !.extra_stdout = ""]
    ELSE r

\* extra_stdout_watcher from the start of the task, or from the return of
\* its sleep, to the next sleep or to the end of its loop
extra_stdout_watcher(r, p) ==
    LET r1 == IF r.procs[p].watcher = "sleep"
              THEN extra_stdout_watcher_check(r, p)
              ELSE r
    IN  IF r1.subprocess /= 0
        THEN [r1 EXCEPT !.procs[p].watcher = "sleep",
                        !.procs[p].extra_before = r1.extra_stdout]
        ELSE [r1 EXCEPT !.procs[p].watcher = "done",
                        !.procs[p].extra_before = ""]

\* the body of the loop of stream_stdout, were it to write the payload
\* without what extra_stdout holds
stream_stdout_payload_DropsExtra(r, p, data) ==
    LET parts == rsplit(data)
        r1 == Write(r, "stdout", p, decode_strip(parts[1]))
    IN  IF parts[2] /= <<>>
        THEN [r1 EXCEPT !.extra_stdout = parts[2][1]]
        ELSE [r1 EXCEPT !.extra_stdout = ""]

\* the body of the loop of stream_stdout, for the payload that read returned
stream_stdout_payload(r, p, data) ==
    LET parts == rsplit(data)
        r1 == Write(r, "stdout", p, decode_strip(r.extra_stdout \o parts[1]))
    IN  IF parts[2] /= <<>>
        THEN [r1 EXCEPT !.extra_stdout = parts[2][1]]
        ELSE [r1 EXCEPT !.extra_stdout = ""]

RECURSIVE stream_stdout(_, _)
RECURSIVE stream_stdout_read(_, _)

\* stream_stdout from the test of its loop: it ends at the end of the
\* stream, suspends in read when nothing is buffered, and goes on with
\* what is buffered otherwise
stream_stdout(r, p) ==
    LET stream == r.procs[p] IN
    IF stream.eof /\ stream.buffer = ""
    THEN [r EXCEPT !.procs[p].stdout = "done"]
    ELSE IF stream.buffer = ""
    THEN [r EXCEPT !.procs[p].stdout = "read"]
    ELSE stream_stdout_read(r, p)

\* stream_stdout from the return of "await stream.read(READSIZE)": up to
\* READSIZE of the buffered bytes, none at the end of the stream
stream_stdout_read(r, p) ==
    LET buffer == r.procs[p].buffer
        n == IF Len(buffer) < READSIZE THEN Len(buffer) ELSE READSIZE
        r1 == [r EXCEPT !.procs[p].buffer = SubSeq(buffer, n + 1, Len(buffer))]
    IN  stream_stdout(stream_stdout_payload(r1, p, SubSeq(buffer, 1, n)), p)

\* Process.terminate() and the exit of the subprocess that follows
terminate(r, p) ==
    IF r.procs[p].status = "running"
    THEN [r EXCEPT !.procs[p].status = "exited", !.procs[p].script = <<>>]
    ELSE r

\* CommandRunner.action_terminate_subprocess, to the return of its wait
action_terminate_subprocess(r) ==
    IF r.subprocess /= 0 THEN terminate(r, r.subprocess) ELSE r

\* CommandRunner.on_unmount
on_unmount_runner(r) ==
    [action_terminate_subprocess(r) EXCEPT !.mounted = FALSE]

(* The steps of the runner, its tasks and its subprocesses *)

Runs(r) ==
    /\ cmd_runner' = r
    /\ UNCHANGED <<nav_vars, call, hist, sugg, built, pressed, rendered>>

Procs == 1..Len(cmd_runner.procs)

\* the results runner is asked to start a command
StartSubprocess(scripts, starts) ==
    /\ cmd_runner.mounted
    /\ Len(cmd_runner.procs) < starts
    /\ \E script \in scripts : Runs(start_subprocess(cmd_runner, script))

\* create_subprocess_exec returns to the worker
Created ==
    \E p \in Procs :
        /\ cmd_runner.procs[p].worker = "create"
        /\ Runs(start_subprocess_created(cmd_runner, p))

\* wait() returns to the worker: the subprocess has exited and its pipes
\* are closed
Finished ==
    \E p \in Procs :
        /\ cmd_runner.procs[p].worker = "wait"
        /\ cmd_runner.procs[p].status = "exited" /\ cmd_runner.procs[p].eof
        /\ Runs(start_subprocess_finished(cmd_runner, p))

\* the subprocess writes its next chunk, which reaches the StreamReader
ProcessWrites ==
    \E p \in Procs :
        /\ cmd_runner.procs[p].status = "running"
        /\ cmd_runner.procs[p].script /= <<>>
        /\ Runs([cmd_runner EXCEPT
                    !.procs[p].buffer = @ \o Head(cmd_runner.procs[p].script),
                    !.procs[p].script = Tail(@)])

\* the subprocess exits, having written what it had to
ProcessExits ==
    \E p \in Procs :
        /\ cmd_runner.procs[p].status = "running"
        /\ cmd_runner.procs[p].script = <<>>
        /\ Runs([cmd_runner EXCEPT !.procs[p].status = "exited"])

\* the end of the output of an exited subprocess reaches the StreamReader
PipeClosed ==
    \E p \in Procs :
        /\ cmd_runner.procs[p].status = "exited"
        /\ ~cmd_runner.procs[p].eof
        /\ Runs([cmd_runner EXCEPT !.procs[p].eof = TRUE])

\* the task of stream_stdout runs: it starts, or its read returns
ReaderRuns ==
    \E p \in Procs :
        \/ /\ cmd_runner.procs[p].stdout = "start"
           /\ Runs(stream_stdout(cmd_runner, p))
        \/ /\ cmd_runner.procs[p].stdout = "read"
           /\ cmd_runner.procs[p].buffer /= "" \/ cmd_runner.procs[p].eof
           /\ Runs(stream_stdout_read(cmd_runner, p))

\* the task of extra_stdout_watcher runs: it starts, or its sleep returns
WatcherRuns ==
    \E p \in Procs :
        /\ cmd_runner.procs[p].watcher \in {"start", "sleep"}
        /\ Runs(extra_stdout_watcher(cmd_runner, p))

\* ctrl+q
TerminateSubprocess ==
    /\ cmd_runner.mounted
    /\ cmd_runner.procs /= <<>>
    /\ Runs(action_terminate_subprocess(cmd_runner))

\* the results screen is torn down
Unmount ==
    /\ cmd_runner.mounted
    /\ cmd_runner.procs /= <<>>
    /\ Runs(on_unmount_runner(cmd_runner))

(* One subprocess and its output *)

StartOne == StartSubprocess(Scripts, 1)

NextStream ==
    \/ StartOne
    \/ Created
    \/ Finished
    \/ ProcessWrites
    \/ ProcessExits
    \/ PipeClosed
    \/ ReaderRuns
    \/ WatcherRuns

\* CommandRunner.__init__
InitRunner ==
    /\ NavigationAtRest
    /\ call = NoCall /\ hist = NoHistory /\ sugg = NoSuggestions /\ built = NotBuilt

SpecStream == InitRunner /\ [][NextStream]_vars

RECURSIVE Letters(_)
\* the bytes of s but the newlines
Letters(s) ==
    IF s = "" THEN ""
    ELSE IF SubSeq(s, 1, 1) = "\n" THEN Letters(SubSeq(s, 2, Len(s)))
    ELSE SubSeq(s, 1, 1) \o Letters(SubSeq(s, 2, Len(s)))

RECURSIVE Logged(_, _)
\* what the log holds of the stdout of subprocess p, in the order written
Logged(log, p) ==
    IF log = <<>> THEN ""
    ELSE IF Head(log).kind = "stdout" /\ Head(log).p = p
    THEN Head(log).text \o Logged(Tail(log), p)
    ELSE Logged(Tail(log), p)

----------------------------------------------------------------------------
(* C38: the same sessions, with the event loop and the operating system    *)
(* fair to every task and to the subprocess: a task that can run does run, *)
(* the subprocess writes what it has to write and exits, and the end of    *)
(* its output is seen.                                                     *)

SpecStreamFair ==
    /\ InitRunner
    /\ [][NextStream]_vars
    /\ WF_vars(Created) /\ WF_vars(Finished)
    /\ WF_vars(ReaderRuns) /\ WF_vars(WatcherRuns)
    /\ WF_vars(ProcessWrites) /\ WF_vars(ProcessExits) /\ WF_vars(PipeClosed)

\* the worker of start_subprocess, the reader and the watcher of the
\* subprocess have all ended
AllStopped ==
    /\ cmd_runner.procs /= <<>>
    /\ \A p \in Procs :
          /\ cmd_runner.procs[p].worker = "done"
          /\ cmd_runner.procs[p].stdout = "done"
          /\ cmd_runner.procs[p].watcher = "done"

\* the log holds all the subprocess wrote to stdout
AllLogged ==
    \A p \in Procs :
        Letters(Logged(cmd_runner.log, p)) = Letters(cmd_runner.procs[p].output)

\* C38: once a subprocess is started, all it writes to stdout is eventually
\* in the log, a last line without a newline included; and when the worker,
\* the reader and the watcher have stopped, extra_stdout holds nothing.
C38_EveryByteEventuallyLogged ==
    /\ (cmd_runner.procs /= <<>>) ~> AllLogged
    /\ [](AllStopped => cmd_runner.extra_stdout = "")

\* the safety half alone
C38_NothingHeldWhenStopped == AllStopped => cmd_runner.extra_stdout = ""

\* the three tasks do stop
C38_TasksStop == (cmd_runner.procs /= <<>>) ~> AllStopped

\* all that was logged of "x\nabc" is "x": the tasks have stopped and "abc"
\* is in extra_stdout
C38_TailLeftBehind ==
    /\ AllStopped
    /\ cmd_runner.procs[1].output = "x\nabc"
    /\ Logged(cmd_runner.log, 1) = "x"
    /\ cmd_runner.extra_stdout = "abc"

\* the subprocess was still tracked when its last line settled: the watcher
\* wrote it
C38_TailWrittenByWatcher ==
    /\ AllStopped
    /\ cmd_runner.procs[1].output = "x\nabc"
    /\ cmd_runner.log[Len(cmd_runner.log)] = [kind |-> "stdout", p |-> 1, text |-> "abc"]
    /\ cmd_runner.extra_stdout = ""

----------------------------------------------------------------------------
(* C39: a runner that is asked to start up to MaxStarts commands, the      *)
(* second one possibly while the first is running, on subprocesses that    *)
(* write nothing.                                                          *)

Start == StartSubprocess({<<>>}, MaxStarts)

NextRunner ==
    \/ Start
    \/ Created
    \/ Finished
    \/ ProcessExits
    \/ PipeClosed
    \/ ReaderRuns
    \/ WatcherRuns
    \/ TerminateSubprocess
    \/ Unmount

SpecRunner == InitRunner /\ [][NextRunner]_vars

\* create_subprocess_exec has returned the subprocess to the runner
Started(r, p) == r.procs[p].worker /= "create"

\* the finished messages written for subprocess p
FinishedMessages(r, p) ==
    {i \in 1..Len(r.log) : r.log[i].kind = "finished" /\ r.log[i].p = p}

\* every started subprocess that is running is the one the runner tracks
RunningIsTracked ==
    \A p \in Procs :
        (Started(cmd_runner, p) /\ cmd_runner.procs[p].status = "running")
            => cmd_runner.subprocess = p

\* at most one finished message for a subprocess, and one when the worker
\* that started it has ended
FinishedOnce ==
    \A p \in Procs :
        /\ Cardinality(FinishedMessages(cmd_runner, p)) <= 1
        /\ cmd_runner.procs[p].worker = "done"
              => Cardinality(FinishedMessages(cmd_runner, p)) = 1

\* ctrl+q and the teardown leave no started subprocess running
HookStopsAll ==
    (TerminateSubprocess \/ Unmount) =>
        \A p \in Procs :
            Started(cmd_runner, p) => cmd_runner'.procs[p].status /= "running"

\* C39: every started subprocess that is still running is the one the
\* runner tracks; after ctrl+q, and after on_unmount, no subprocess the
\* runner started is running; and the finished message is written exactly
\* once for each started subprocess.
C39_HookTerminatesWhatWasStarted ==
    /\ [](RunningIsTracked /\ FinishedOnce)
    /\ [][HookStopsAll]_vars

\* the same, for the runners that were asked to start one command
C39_HoldsForOneStart ==
    /\ [](Len(cmd_runner.procs) <= 1 => RunningIsTracked /\ FinishedOnce)
    /\ [][Len(cmd_runner.procs) <= 1 => HookStopsAll]_vars

\* the first subprocess runs on, untracked, after the teardown
C39_UntrackedSurvives ==
    /\ ~cmd_runner.mounted
    /\ Len(cmd_runner.procs) = 2
    /\ cmd_runner.procs[1].status = "running" /\ Started(cmd_runner, 1)
    /\ cmd_runner.procs[2].status = "exited"

\* both workers have ended and the log holds one finished message
C39_OneMessageForTwo ==
    /\ Len(cmd_runner.procs) = 2
    /\ \A p \in Procs : cmd_runner.procs[p].worker = "done"
    /\ Cardinality(FinishedMessages(cmd_runner, 1)
                   \cup FinishedMessages(cmd_runner, 2)) = 1

\* a single subprocess was terminated by ctrl+q and its finished message
\* written
C39_WitnessOneStart ==
    /\ Len(cmd_runner.procs) = 1 /\ cmd_runner.mounted
    /\ cmd_runner.procs[1].worker = "done"
    /\ Cardinality(FinishedMessages(cmd_runner, 1)) = 1
    /\ cmd_runner.subprocess = 0


====
